---- MODULE Spec2Model ----
(***************************************************************************)
(* Order intake of the provider portal: CreateOrderView.create with its    *)
(* eligibility gate, size parser and quantity validator, the persistence   *)
(* of Order / OrderItem rows by OrderSerializer.create, the CareKit order  *)
(* endpoints, and the admin operations that change the rows these read;    *)
(* the IVR form endpoints of providers and admins; and the login flow of   *)
(* provider_auth: password step, BAA signing and code verification.        *)
(***************************************************************************)
EXTENDS Integers, Sequences, FiniteSets, TLC

(***************************************************************************)
(* Bounds of the model.                                                    *)
(***************************************************************************)
\* most line items in one submitted order
MaxItems == 2
\* largest quantity a submitted line item carries (the smallest is -1)
MaxQty == 3
\* most line items of an order where the CareKit endpoints run as well
MaxItemsOrders == 1
\* most rows of the orders table
MaxOrders == 2
\* most CreateOrderView.create requests served in one behaviour
MaxRequests == 1
\* most admin operations (IVR status update, variant deletion) in one behaviour
MaxAdminOps == 1
\* most provider requests that create or update an IVR form in one behaviour
MaxFormOps == 2
\* most login, BAA and verification requests in one behaviour
MaxAuthRequests == 3
\* the clock stops after this many minutes
MaxTime == 15
\* request handlers that can run at the same time
NumWorkers == 2
\* most CreateOrderView.create requests where requests run concurrently
MaxConcurrent == 2

(***************************************************************************)
(* decimal.Decimal: n * 10^(-e).  A nullable DecimalField is a Decimal or  *)
(* NULL.                                                                   *)
(***************************************************************************)
Dec(n, e) == [null |-> FALSE, n |-> n, e |-> e]
NullDec == [null |-> TRUE, n |-> 0, e |-> 0]

RECURSIVE Pow10(_)
Pow10(k) == IF k = 0 THEN 1 ELSE 10 * Pow10(k - 1)

MaxOf(a, b) == IF a >= b THEN a ELSE b

\* a and b brought to the same exponent
DecAlign(a, e) == a.n * Pow10(e - a.e)
DecMul(a, b) == Dec(a.n * b.n, a.e + b.e)
DecAdd(a, b) ==
    LET e == MaxOf(a.e, b.e) IN Dec(DecAlign(a, e) + DecAlign(b, e), e)
DecGT(a, b) ==
    LET e == MaxOf(a.e, b.e) IN DecAlign(a, e) > DecAlign(b, e)
DecEq(a, b) ==
    LET e == MaxOf(a.e, b.e) IN DecAlign(a, e) = DecAlign(b, e)
DecLE(a, b) == ~DecGT(a, b)
\* x / Decimal('10')
DecDiv10(a) == Dec(a.n, a.e + 1)
\* truth value of a nullable Decimal: None and zero are falsy
DecFalsy(a) == a.null \/ a.n = 0

\* float(Decimal): the number itself, without the Decimal's trailing zeros
\* (every value of the model has far fewer than 15 significant digits, which
\* a double carries without loss)
RECURSIVE ToFloat(_)
ToFloat(a) ==
    IF a.e > 0 /\ a.n % 10 = 0 THEN ToFloat(Dec(a.n \div 10, a.e - 1)) ELSE a

(***************************************************************************)
(* parse_variant_size_to_cm2: a size string is a sequence of characters.   *)
(***************************************************************************)
DigitChars == <<"0", "1", "2", "3", "4", "5", "6", "7", "8", "9">>
IsDigit(c) == \E i \in 1..Len(DigitChars) : DigitChars[i] = c
DigitVal(c) == (CHOOSE i \in 1..Len(DigitChars) : DigitChars[i] = c) - 1
IsSpace(c) == c \in {" ", "\t"}
\* the separator matched as the lower-case letter only
IsTimes_lower_case_x(c) == c = "x"
\* [x×] under re.IGNORECASE
IsTimes(c) == c \in {"x", "X", "×"}
Lower(c) == IF c = "M" THEN "m" ELSE IF c = "C" THEN "c" ELSE c

\* index after the longest run of digits (of blanks) that starts at i
RECURSIVE ScanDigits(_, _)
ScanDigits(s, i) ==
    IF i <= Len(s) /\ IsDigit(s[i]) THEN ScanDigits(s, i + 1) ELSE i
RECURSIVE ScanSpaces(_, _)
ScanSpaces(s, i) ==
    IF i <= Len(s) /\ IsSpace(s[i]) THEN ScanSpaces(s, i + 1) ELSE i

\* the digits s[i..j-1] read as an integer
RECURSIVE DigitsToInt(_, _, _)
DigitsToInt(s, i, j) ==
    IF j <= i THEN 0 ELSE DigitsToInt(s, i, j - 1) * 10 + DigitVal(s[j - 1])

\* index after an optional fraction (?:\.\d+)? that starts at j
FractionEnd(s, j) ==
    IF j <= Len(s) /\ s[j] = "." /\ ScanDigits(s, j + 1) > j + 1
    THEN ScanDigits(s, j + 1)
    ELSE j

\* Decimal(group) for the digits s[i..j-1] and the fraction s[j..k-1]
NumberValue(s, i, j, k) ==
    IF k > j
    THEN Dec(DigitsToInt(s, i, j) * Pow10(k - j - 1) + DigitsToInt(s, j + 1, k),
             k - j - 1)
    ELSE Dec(DigitsToInt(s, i, j), 0)

\* (\d+(?:\.\d+)?) at i, whose digits end before j
NumberUpTo(s, i, j) ==
    IF j = i THEN [ok |-> FALSE, next |-> i, val |-> Dec(0, 0)]
    ELSE [ok |-> TRUE, next |-> FractionEnd(s, j),
          val |-> NumberValue(s, i, j, FractionEnd(s, j))]

\* (\d+(?:\.\d+)?) at i: whether it matches, the index after it, Decimal(group)
MatchNumber(s, i) == NumberUpTo(s, i, ScanDigits(s, i))

\* (mm|cm)? at i under re.IGNORECASE, lower-cased; "" when the group is absent
MatchUnit(s, i) ==
    IF i + 1 <= Len(s) /\ Lower(s[i + 1]) = "m" /\ Lower(s[i]) \in {"m", "c"}
    THEN (IF Lower(s[i]) = "m" THEN "mm" ELSE "cm")
    ELSE ""

NoMatch == [ok |-> FALSE, length |-> Dec(0, 0), width |-> Dec(0, 0), unit |-> ""]

\* \s*(mm|cm)? after the second number g2
MatchWidth(s, g1, g2) ==
    IF g2.ok
    THEN [ok |-> TRUE, length |-> g1.val, width |-> g2.val,
          unit |-> MatchUnit(s, ScanSpaces(s, g2.next))]
    ELSE NoMatch

\* [x×]\s*(\d+(?:\.\d+)?) at p, after the first number g1
MatchTimes(s, g1, p) ==
    IF g1.ok /\ p <= Len(s) /\ IsTimes(s[p])
    THEN MatchWidth(s, g1, MatchNumber(s, ScanSpaces(s, p + 1)))
    ELSE NoMatch

MatchLength(s, g1) == MatchTimes(s, g1, ScanSpaces(s, g1.next))

\* re.match(r'(\d+(?:\.\d+)?)\s*[x×]\s*(\d+(?:\.\d+)?)\s*(mm|cm)?', size_str, re.IGNORECASE)
SizeMatch(s) == MatchLength(s, MatchNumber(s, 1))

\* lines 73-86: the area of a match m
MatchArea(m) ==
    IF ~m.ok THEN Dec(0, 0)
    ELSE IF (IF m.unit # "" THEN m.unit ELSE "cm") = "mm"
         THEN DecMul(DecDiv10(m.length), DecDiv10(m.width))
         ELSE DecMul(m.length, m.width)

parse_variant_size_to_cm2(size_str) ==
    IF size_str = <<>> THEN Dec(0, 0) ELSE MatchArea(SizeMatch(size_str))

(***************************************************************************)
(* The database and the requests in flight.                                *)
(***************************************************************************)
VARIABLES
    patients,      \* patients: id -> [provider, wound_size_length, wound_size_width]
    ivr_forms,     \* IVRForm rows in order of submitted_at: [patient, provider,
                   \* status, reviewed_at, reviewed_by]
    variants,      \* ProductVariant rows: id -> size
    orders,        \* Order rows by id: [provider, patient, kind, approved_ivr, submitted]
    order_items,   \* OrderItem rows in order of insertion: [order, variant, quantity]
    req,           \* worker -> the CreateOrderView.create request it handles
    carekit_resp,  \* response of the last CareKit request
    ivr_resp,      \* response of the last request to an IVR form endpoint
    admin_resp,    \* the last status update of an admin and its response
    form_ops,      \* provider requests that create or update an IVR form so far
    served,        \* CreateOrderView.create requests received so far
    admin_ops,     \* admin operations done so far
    codes,         \* Verification_Code rows: [user, code, method, session_id, created_at]
    clock,         \* timezone.now(), in minutes
    has_signed_baa,\* user -> User.has_signed_baa
    auth_req,      \* worker -> the login, BAA or verification request it handles
    tokens,        \* tokens handed out in responses: [user, by, session_id]
    mailed,        \* verification mails sent: [user, code, session_id]
    auth_served    \* login, BAA and verification requests received so far

dbVars == <<patients, ivr_forms, variants, orders, order_items>>
\* what the order and IVR endpoints read and write
portalVars == <<patients, ivr_forms, variants, orders, order_items, req, carekit_resp,
                ivr_resp, admin_resp, form_ops, served, admin_ops>>
\* what the login endpoints read and write
authVars == <<codes, clock, has_signed_baa, auth_req, tokens, mailed, auth_served>>
vars == <<portalVars, authVars>>

Providers == {"p1", "p2"}
Workers == 1..NumWorkers

\* IVRForm.IVR_STATUS_CHOICES
IVR_STATUS_CHOICES ==
    {"pending", "approved", "denied", "cancelled", "withdrawn"}
\* get_status_display()
StatusDisplay(st) ==
    CASE st = "pending" -> "Pending"
      [] st = "approved" -> "Approved"
      [] st = "denied" -> "Denied"
      [] st = "cancelled" -> "Cancelled"
      [] OTHER -> "Withdrawn by Provider"

\* characters of a size string
Chars(str) ==
    CASE str = "2x2cm" -> <<"2", "x", "2", "c", "m">>
      [] str = "large" -> <<"l", "a", "r", "g", "e">>
      [] OTHER -> <<>>

\* The catalogue and the patients the behaviours start from.
InitPatients ==
    <<[provider |-> "p1", wound_size_length |-> Dec(400, 2), wound_size_width |-> Dec(400, 2)],
      [provider |-> "p1", wound_size_length |-> Dec(250, 2), wound_size_width |-> Dec(400, 2)],
      [provider |-> "p1", wound_size_length |-> NullDec, wound_size_width |-> Dec(400, 2)],
      [provider |-> "p1", wound_size_length |-> Dec(400, 2), wound_size_width |-> NullDec],
      [provider |-> "p2", wound_size_length |-> Dec(400, 2), wound_size_width |-> Dec(400, 2)],
      [provider |-> "p1", wound_size_length |-> Dec(400, 2), wound_size_width |-> Dec(400, 2)]>>
\* an IVRForm row that no admin has reviewed; reviewed_at is the time of the
\* review, 0 for NULL
IvrForm(patient, provider, status) ==
    [patient |-> patient, provider |-> provider, status |-> status,
     reviewed_at |-> 0, reviewed_by |-> ""]
InitIvrForms ==
    <<IvrForm(1, "p1", "approved"),
      IvrForm(2, "p1", "approved"),
      IvrForm(2, "p1", "pending"),
      IvrForm(3, "p1", "approved"),
      IvrForm(5, "p2", "approved"),
      IvrForm(6, "p1", "denied"),
      IvrForm(6, "p1", "pending")>>
InitVariants == <<Chars("2x2cm"), Chars("large")>>

\* ids a request can name: the rows of the initial tables and one id beyond
PatientIds == 0..(Len(InitPatients) + 1)
VariantIds == 1..(Len(InitVariants) + 1)
\* request.data['patient'] absent, None or 0
NoPatientId == 0

\* a submitted quantity: a JSON number, or text that is no number
Qty(v) == [isnum |-> TRUE, v |-> v]
BadQty == [isnum |-> FALSE, v |-> 0]
Quantities == {Qty(v) : v \in (-1)..MaxQty} \cup {BadQty}
ItemValues == [variant : VariantIds, quantity : Quantities]
ItemListsUpTo(len) == UNION {[1..n -> ItemValues] : n \in 0..len}
ItemLists == ItemListsUpTo(MaxItems)
ShortItemLists == ItemListsUpTo(MaxItemsOrders)

NoResp ==
    [status |-> 0, error |-> "", detail |-> "", variant |-> 0, current_status |-> "",
     wound_area |-> Dec(0, 0), max_allowed_area |-> Dec(0, 0),
     total_ordered_area |-> Dec(0, 0), order_id |-> 0]
NoCalc ==
    [wound_area |-> Dec(0, 0), max_allowed_area |-> Dec(0, 0),
     total_ordered_area |-> Dec(0, 0)]
IdleReq ==
    [pc |-> "idle", user |-> "", patient |-> NoPatientId, items |-> <<>>,
     steps |-> <<>>, calc |-> NoCalc, resp |-> NoResp, order |-> 0, k |-> 0]

NoIvrResp == [status |-> 0, error |-> "", form |-> 0, user |-> ""]
NoAdminResp == [status |-> 0, error |-> "", form |-> 0, user |-> "", value |-> ""]

\* a response of a login endpoint; access and refresh name the user the token
\* is for ("" when the response carries none)
NoAuthResp ==
    [status |-> 0, error |-> "", access |-> "", refresh |-> "", session_id |-> 0,
     verified |-> FALSE]
NoCode == ""
NoSession == 0
IdleAuth ==
    [pc |-> "idle", op |-> "", user |-> "", method |-> "", session_id |-> NoSession,
     code |-> NoCode, resp |-> NoAuthResp]
\* p1 has signed the BAA, p2 has not; no login is under way
InitAuth ==
    /\ codes = {}
    /\ clock = 0
    /\ has_signed_baa = [u \in Providers |-> u = "p1"]
    /\ auth_req = [w \in Workers |-> IdleAuth]
    /\ tokens = {}
    /\ mailed = {}
    /\ auth_served = 0

Init ==
    /\ patients = InitPatients
    /\ ivr_forms = InitIvrForms
    /\ variants = [v \in 1..Len(InitVariants) |-> InitVariants[v]]
    /\ orders = <<>>
    /\ order_items = <<>>
    /\ req = [w \in Workers |-> IdleReq]
    /\ carekit_resp = [status |-> 0, order_id |-> 0]
    /\ ivr_resp = NoIvrResp
    /\ admin_resp = NoAdminResp
    /\ form_ops = 0
    /\ served = 0
    /\ admin_ops = 0
    /\ InitAuth

(***************************************************************************)
(* Patient properties.                                                     *)
(***************************************************************************)
\* has_approved_ivr without the filter on the status
has_approved_ivr_any_status(pid) ==
    \E i \in DOMAIN ivr_forms : ivr_forms[i].patient = pid

\* has_approved_ivr looking at the form submitted last only
has_approved_ivr_latest_only(pid) ==
    \E i \in DOMAIN ivr_forms :
        /\ ivr_forms[i].patient = pid /\ ivr_forms[i].status = "approved"
        /\ \A j \in DOMAIN ivr_forms : ivr_forms[j].patient = pid => j <= i

\* Patient.has_approved_ivr
has_approved_ivr(pid) ==
    \E i \in DOMAIN ivr_forms :
        ivr_forms[i].patient = pid /\ ivr_forms[i].status = "approved"

PatientForms(pid) == {i \in DOMAIN ivr_forms : ivr_forms[i].patient = pid}
\* Patient.latest_ivr: the id of the form submitted last, 0 when there is none
latest_ivr(pid) ==
    IF PatientForms(pid) = {} THEN 0
    ELSE CHOOSE i \in PatientForms(pid) : \A j \in PatientForms(pid) : j <= i
\* Patient.latest_ivr_status_display
latest_ivr_status_display(pid) ==
    IF latest_ivr(pid) = 0 THEN "No IVR Submitted"
    ELSE StatusDisplay(ivr_forms[latest_ivr(pid)].status)

(***************************************************************************)
(* CreateOrderView.create, lines 103-200: the checks made before anything  *)
(* is written.  Each result carries the steps the handler went through.    *)
(***************************************************************************)
Reject(status, error, detail, steps) ==
    [passed |-> FALSE, steps |-> steps, calc |-> NoCalc,
     resp |-> [NoResp EXCEPT !.status = status, !.error = error, !.detail = detail]]

\* the patient lookup without the filter on the provider
PatientFound_any_provider(user, patient_id) ==
    patient_id \in DOMAIN patients

\* Patient.objects.get(id=patient_id, provider=request.user)
PatientFound(user, patient_id) ==
    patient_id \in DOMAIN patients /\ patients[patient_id].provider = user

\* the for loop over items_data, from item i on, with the running total
RECURSIVE ItemLoop(_, _, _, _)

\* the quantity converted before the variant's area is looked at
ItemArea_converting_first(items, i, total, steps, variant_area) ==
    IF ~items[i].quantity.isnum
    THEN [outcome |-> "exception", variant |-> items[i].variant,
          total |-> total, steps |-> steps]
    ELSE IF DecGT(variant_area, Dec(0, 0))
    THEN ItemLoop(items, i + 1,
                  DecAdd(total, DecMul(variant_area, Dec(items[i].quantity.v, 0))),
                  Append(steps, "item_area"))
    ELSE ItemLoop(items, i + 1, total, steps)

\* the item's area without its quantity
ItemArea_without_quantity(items, i, total, steps, variant_area) ==
    IF DecGT(variant_area, Dec(0, 0))
    THEN IF ~items[i].quantity.isnum
         THEN [outcome |-> "exception", variant |-> items[i].variant,
               total |-> total, steps |-> steps]
         ELSE ItemLoop(items, i + 1, DecAdd(total, variant_area),
                       Append(steps, "item_area"))
    ELSE ItemLoop(items, i + 1, total, steps)

\* lines 174-179: item i, whose variant has area variant_area
ItemArea(items, i, total, steps, variant_area) ==
    IF DecGT(variant_area, Dec(0, 0))
    THEN IF ~items[i].quantity.isnum
         \* Decimal(str(quantity)) raises InvalidOperation
         THEN [outcome |-> "exception", variant |-> items[i].variant,
               total |-> total, steps |-> steps]
         ELSE ItemLoop(items, i + 1,
                       DecAdd(total, DecMul(variant_area, Dec(items[i].quantity.v, 0))),
                       Append(steps, "item_area"))
    ELSE ItemLoop(items, i + 1, total, steps)

\* the loop going on to the next item when a variant is not found
ItemLoop_skipping(items, i, total, steps) ==
    IF i > Len(items)
    THEN [outcome |-> "done", variant |-> 0, total |-> total, steps |-> steps]
    ELSE IF items[i].variant \notin DOMAIN variants
         THEN ItemLoop(items, i + 1, total, Append(steps, "variant_lookup"))
         ELSE ItemArea(items, i, total, steps \o <<"variant_lookup", "variant_area">>,
                       parse_variant_size_to_cm2(variants[items[i].variant]))

ItemLoop(items, i, total, steps) ==
    IF i > Len(items)
    THEN [outcome |-> "done", variant |-> 0, total |-> total, steps |-> steps]
    ELSE IF items[i].variant \notin DOMAIN variants
         THEN [outcome |-> "variant_not_found", variant |-> items[i].variant,
               total |-> total, steps |-> Append(steps, "variant_lookup")]
         ELSE ItemArea(items, i, total, steps \o <<"variant_lookup", "variant_area">>,
                       parse_variant_size_to_cm2(variants[items[i].variant]))

\* the area check rejecting a total equal to the limit as well
AfterItems_rejecting_at_limit(loop, calc) ==
    IF loop.outcome = "variant_not_found"
    THEN [passed |-> FALSE, steps |-> loop.steps, calc |-> calc,
          resp |-> [NoResp EXCEPT !.status = 404,
                        !.error = "Product variant not found",
                        !.variant = loop.variant]]
    ELSE IF loop.outcome = "exception"
    THEN [passed |-> FALSE, steps |-> loop.steps, calc |-> calc,
          resp |-> [NoResp EXCEPT !.status = 500, !.error = "Server Error"]]
    ELSE IF ~DecGT(calc.max_allowed_area, calc.total_ordered_area)
    THEN [passed |-> FALSE, steps |-> Append(loop.steps, "area_check"),
          calc |-> calc,
          resp |-> [NoResp EXCEPT !.status = 400,
                        !.error = "Order exceeds maximum allowed area",
                        !.wound_area = ToFloat(calc.wound_area),
                        !.max_allowed_area = ToFloat(calc.max_allowed_area),
                        !.total_ordered_area = ToFloat(calc.total_ordered_area)]]
    ELSE [passed |-> TRUE, steps |-> Append(loop.steps, "area_check"),
          calc |-> calc, resp |-> NoResp]

\* the area rejection reporting the limit in place of the wound area
AfterItems_reporting_limit(loop, calc) ==
    IF loop.outcome = "variant_not_found"
    THEN [passed |-> FALSE, steps |-> loop.steps, calc |-> calc,
          resp |-> [NoResp EXCEPT !.status = 404,
                        !.error = "Product variant not found",
                        !.variant = loop.variant]]
    ELSE IF loop.outcome = "exception"
    THEN [passed |-> FALSE, steps |-> loop.steps, calc |-> calc,
          resp |-> [NoResp EXCEPT !.status = 500, !.error = "Server Error"]]
    ELSE IF DecGT(calc.total_ordered_area, calc.max_allowed_area)
    THEN [passed |-> FALSE, steps |-> Append(loop.steps, "area_check"),
          calc |-> calc,
          resp |-> [NoResp EXCEPT !.status = 400,
                        !.error = "Order exceeds maximum allowed area",
                        !.wound_area = ToFloat(calc.max_allowed_area),
                        !.max_allowed_area = ToFloat(calc.max_allowed_area),
                        !.total_ordered_area = ToFloat(calc.total_ordered_area)]]
    ELSE [passed |-> TRUE, steps |-> Append(loop.steps, "area_check"),
          calc |-> calc, resp |-> NoResp]

\* lines 181-200: the response after the loop ended with result loop
AfterItems(loop, calc) ==
    IF loop.outcome = "variant_not_found"
    THEN [passed |-> FALSE, steps |-> loop.steps, calc |-> calc,
          resp |-> [NoResp EXCEPT !.status = 404,
                        !.error = "Product variant not found",
                        !.variant = loop.variant]]
    ELSE IF loop.outcome = "exception"
    THEN [passed |-> FALSE, steps |-> loop.steps, calc |-> calc,
          resp |-> [NoResp EXCEPT !.status = 500, !.error = "Server Error"]]
    ELSE IF DecGT(calc.total_ordered_area, calc.max_allowed_area)
    THEN [passed |-> FALSE, steps |-> Append(loop.steps, "area_check"),
          calc |-> calc,
          resp |-> [NoResp EXCEPT !.status = 400,
                        !.error = "Order exceeds maximum allowed area",
                        !.wound_area = ToFloat(calc.wound_area),
                        !.max_allowed_area = ToFloat(calc.max_allowed_area),
                        !.total_ordered_area = ToFloat(calc.total_ordered_area)]]
    ELSE [passed |-> TRUE, steps |-> Append(loop.steps, "area_check"),
          calc |-> calc, resp |-> NoResp]

LoopCalc(loop, wound_area, max_allowed_area) ==
    AfterItems(loop, [wound_area |-> wound_area,
                      max_allowed_area |-> max_allowed_area,
                      total_ordered_area |-> loop.total])

\* the items check without the rejection of an empty list
ItemsCheck_without_empty_check(items, wound_area, max_allowed_area, steps) ==
    LoopCalc(ItemLoop(items, 1, Dec(0, 0), steps), wound_area, max_allowed_area)

\* lines 155-200: the items of the request against max_allowed_area
ItemsCheck(items, wound_area, max_allowed_area, steps) ==
    IF items = <<>>
    THEN [Reject(400, "Order must contain at least one item", "", steps)
            EXCEPT !.calc.wound_area = wound_area,
                   !.calc.max_allowed_area = max_allowed_area]
    ELSE LoopCalc(ItemLoop(items, 1, Dec(0, 0), steps), wound_area, max_allowed_area)

\* the limit rounded to the two decimals of the wound fields
QuantityValidator_rounding_limit(items, wound_area, steps) ==
    ItemsCheck(items, wound_area,
               Dec((wound_area.n * 12 + 5 * Pow10(wound_area.e - 2))
                     \div Pow10(wound_area.e - 1), 2),
               steps)

\* lines 146-150: wound area and the 120% limit
QuantityValidator(items, wound_area, steps) ==
    ItemsCheck(items, wound_area, DecMul(wound_area, Dec(12, 1)), steps)

\* area x quantity over the lines of the first n orders placed for a patient
RECURSIVE OrderedArea(_, _)
OrderedArea(patient_id, n) ==
    IF n = 0 THEN Dec(0, 0)
    ELSE IF orders[n].patient # patient_id THEN OrderedArea(patient_id, n - 1)
    ELSE DecAdd(OrderedArea(patient_id, n - 1),
                IF orders[n].submitted = <<>> THEN Dec(0, 0)
                ELSE DecMul(parse_variant_size_to_cm2(
                                InitVariants[orders[n].submitted[1].variant]),
                            Dec(orders[n].submitted[1].quantity, 0)))

\* the checks with the limit lowered by what the patient's orders hold
CreateOrderView_checks_counting_orders(user, patient_id, items) ==
    IF patient_id = NoPatientId
    THEN Reject(400, "Patient ID is required", "", <<"patient_id">>)
    ELSE IF ~PatientFound(user, patient_id)
    THEN Reject(404, "Patient not found", "", <<"patient_id", "patient_lookup">>)
    ELSE IF ~has_approved_ivr(patient_id)
    THEN [Reject(400, "Cannot place order",
                 "Patient must have an approved IVR to place orders",
                 <<"patient_id", "patient_lookup", "ivr_check">>)
            EXCEPT !.resp.current_status = latest_ivr_status_display(patient_id)]
    ELSE IF \/ DecFalsy(patients[patient_id].wound_size_length)
            \/ DecFalsy(patients[patient_id].wound_size_width)
    THEN Reject(400, "Cannot place order", "Patient must have wound size recorded",
                <<"patient_id", "patient_lookup", "ivr_check", "wound_check">>)
    ELSE ItemsCheck(items,
             DecMul(patients[patient_id].wound_size_length,
                    patients[patient_id].wound_size_width),
             DecAdd(DecMul(DecMul(patients[patient_id].wound_size_length,
                                  patients[patient_id].wound_size_width),
                           Dec(12, 1)),
                    DecMul(OrderedArea(patient_id, Len(orders)), Dec(-1, 0))),
             <<"patient_id", "patient_lookup", "ivr_check", "wound_check",
               "wound_area", "items_check">>)

\* the checks with the wound size looked at before the IVR forms
CreateOrderView_checks_wound_first(user, patient_id, items) ==
    IF patient_id = NoPatientId
    THEN Reject(400, "Patient ID is required", "", <<"patient_id">>)
    ELSE IF ~PatientFound(user, patient_id)
    THEN Reject(404, "Patient not found", "", <<"patient_id", "patient_lookup">>)
    ELSE IF \/ DecFalsy(patients[patient_id].wound_size_length)
            \/ DecFalsy(patients[patient_id].wound_size_width)
    THEN Reject(400, "Cannot place order", "Patient must have wound size recorded",
                <<"patient_id", "patient_lookup", "wound_check">>)
    ELSE IF ~has_approved_ivr(patient_id)
    THEN [Reject(400, "Cannot place order",
                 "Patient must have an approved IVR to place orders",
                 <<"patient_id", "patient_lookup", "wound_check", "ivr_check">>)
            EXCEPT !.resp.current_status = latest_ivr_status_display(patient_id)]
    ELSE QuantityValidator(items,
             DecMul(patients[patient_id].wound_size_length,
                    patients[patient_id].wound_size_width),
             <<"patient_id", "patient_lookup", "ivr_check", "wound_check",
               "wound_area", "items_check">>)

\* lines 103-200
CreateOrderView_checks(user, patient_id, items) ==
    IF patient_id = NoPatientId
    THEN Reject(400, "Patient ID is required", "", <<"patient_id">>)
    ELSE IF ~PatientFound(user, patient_id)
    THEN Reject(404, "Patient not found", "", <<"patient_id", "patient_lookup">>)
    ELSE IF ~has_approved_ivr(patient_id)
    THEN [Reject(400, "Cannot place order",
                 "Patient must have an approved IVR to place orders",
                 <<"patient_id", "patient_lookup", "ivr_check">>)
            EXCEPT !.resp.current_status = latest_ivr_status_display(patient_id)]
    ELSE IF \/ DecFalsy(patients[patient_id].wound_size_length)
            \/ DecFalsy(patients[patient_id].wound_size_width)
    THEN Reject(400, "Cannot place order", "Patient must have wound size recorded",
                <<"patient_id", "patient_lookup", "ivr_check", "wound_check">>)
    ELSE QuantityValidator(items,
             DecMul(patients[patient_id].wound_size_length,
                    patients[patient_id].wound_size_width),
             <<"patient_id", "patient_lookup", "ivr_check", "wound_check",
               "wound_area", "items_check">>)

(***************************************************************************)
(* OrderSerializer: validation of the submitted data and create().  The    *)
(* fields of the request that the checks above never read (facility and    *)
(* address, the product of each item) are taken to be valid.               *)
(***************************************************************************)
\* OrderItemSerializer: variant is a PrimaryKeyRelatedField, quantity an
\* IntegerField with the PositiveIntegerField's minimum of 0
ItemValid(item) ==
    /\ item.variant \in DOMAIN variants
    /\ item.quantity.isnum
    /\ item.quantity.v >= 0

\* serializer.is_valid()
OrderSerializer_is_valid(patient_id, items) ==
    /\ patient_id \in DOMAIN patients
    /\ \A i \in DOMAIN items : ItemValid(items[i])

\* the first worker that handles no request, 0 when all are busy
FirstFree ==
    IF \E w \in Workers : req[w].pc \in {"idle", "done"}
    THEN CHOOSE w \in Workers :
            /\ req[w].pc \in {"idle", "done"}
            /\ \A v \in Workers : req[v].pc \in {"idle", "done"} => w <= v
    ELSE 0

\* the request a worker holds once the checks gave result view
Received(user, patient_id, items, view) ==
    [pc |-> IF view.passed THEN "serializer" ELSE "done",
     user |-> user, patient |-> patient_id, items |-> items,
     steps |-> view.steps, calc |-> view.calc, resp |-> view.resp,
     order |-> 0, k |-> 0]

\* lines 96-200: a request of one of users for one of patient_ids with items
\* out of item_lists arrives at the first free worker and is checked, while
\* fewer than max_requests were received
CreateOrder_ReceiveFrom(users, patient_ids, item_lists, max_requests) ==
    /\ served < max_requests
    /\ Len(orders) < MaxOrders
    /\ FirstFree \in Workers
    /\ \E user \in users, patient_id \in patient_ids, items \in item_lists :
          req' = [req EXCEPT ![FirstFree] =
                    Received(user, patient_id, items,
                             CreateOrderView_checks(user, patient_id, items))]
    /\ served' = served + 1
    /\ UNCHANGED <<authVars, form_ops, admin_resp, dbVars, carekit_resp, admin_ops,
                   ivr_resp>>

\* a request of any provider for any patient id
CreateOrder_Receive(item_lists) ==
    CreateOrder_ReceiveFrom(Providers, PatientIds, item_lists, MaxRequests)

\* the Order row written before the submitted data is validated
CreateOrder_SaveOrder_writing_first(w, db_ok) ==
    /\ req[w].pc = "serializer"
    /\ IF ~OrderSerializer_is_valid(req[w].patient, req[w].items)
       THEN /\ req' = [req EXCEPT ![w].pc = "done",
                           ![w].steps = Append(@, "is_valid"),
                           ![w].resp = [NoResp EXCEPT !.status = 400,
                                            !.error = "validation error"]]
            /\ orders' = Append(orders,
                    [provider |-> req[w].user, patient |-> req[w].patient,
                     kind |-> "items",
                     approved_ivr |-> has_approved_ivr(req[w].patient),
                     submitted |-> <<>>])
       ELSE IF ~db_ok
       THEN /\ req' = [req EXCEPT ![w].pc = "done",
                           ![w].steps = Append(@, "is_valid"),
                           ![w].resp = [NoResp EXCEPT !.status = 500,
                                            !.error = "Server Error"]]
            /\ UNCHANGED orders
       ELSE /\ orders' = Append(orders,
                    [provider |-> req[w].user, patient |-> req[w].patient,
                     kind |-> "items",
                     approved_ivr |-> has_approved_ivr(req[w].patient),
                     submitted |-> [i \in DOMAIN req[w].items |->
                                      [variant |-> req[w].items[i].variant,
                                       quantity |-> req[w].items[i].quantity.v]]])
            /\ req' = [req EXCEPT ![w].pc = "items",
                           ![w].steps = @ \o <<"is_valid", "order_insert">>,
                           ![w].order = Len(orders) + 1, ![w].k = 1]
    /\ UNCHANGED <<authVars, form_ops, admin_resp, patients, ivr_forms, variants,
                   order_items, carekit_resp, served, admin_ops, ivr_resp>>

\* lines 203-205 and OrderSerializer.create lines 26-31: validation, then
\* the Order row
CreateOrder_SaveOrder(w, db_ok) ==
    /\ req[w].pc = "serializer"
    /\ IF ~OrderSerializer_is_valid(req[w].patient, req[w].items)
       THEN /\ req' = [req EXCEPT ![w].pc = "done",
                           ![w].steps = Append(@, "is_valid"),
                           ![w].resp = [NoResp EXCEPT !.status = 400,
                                            !.error = "validation error"]]
            /\ UNCHANGED orders
       ELSE IF ~db_ok
       THEN /\ req' = [req EXCEPT ![w].pc = "done",
                           ![w].steps = Append(@, "is_valid"),
                           ![w].resp = [NoResp EXCEPT !.status = 500,
                                            !.error = "Server Error"]]
            /\ UNCHANGED orders
       ELSE /\ orders' = Append(orders,
                    [provider |-> req[w].user, patient |-> req[w].patient,
                     kind |-> "items",
                     approved_ivr |-> has_approved_ivr(req[w].patient),
                     submitted |-> [i \in DOMAIN req[w].items |->
                                      [variant |-> req[w].items[i].variant,
                                       quantity |-> req[w].items[i].quantity.v]]])
            /\ req' = [req EXCEPT ![w].pc = "items",
                           ![w].steps = @ \o <<"is_valid", "order_insert">>,
                           ![w].order = Len(orders) + 1, ![w].k = 1]
    /\ UNCHANGED <<authVars, form_ops, admin_resp, patients, ivr_forms, variants,
                   order_items, carekit_resp, served, admin_ops, ivr_resp>>

\* OrderSerializer.create lines 32-38: the k-th OrderItem row.  The insert
\* fails when the database fails or the variant row is gone (foreign key).
CreateOrder_SaveItem(w, db_ok) ==
    /\ req[w].pc = "items"
    /\ LET item_data == req[w].items[req[w].k]
       IN  IF db_ok /\ item_data.variant \in DOMAIN variants
           THEN /\ order_items' = Append(order_items,
                        [order |-> req[w].order, variant |-> item_data.variant,
                         quantity |-> item_data.quantity.v])
                /\ req' = [req EXCEPT
                        ![w].pc = IF req[w].k = Len(req[w].items) THEN "invoice"
                                  ELSE "items",
                        ![w].steps = Append(@, "item_insert"),
                        ![w].k = @ + 1]
           ELSE /\ req' = [req EXCEPT ![w].pc = "done",
                               ![w].resp = [NoResp EXCEPT !.status = 500,
                                                !.error = "Server Error"]]
                /\ UNCHANGED order_items
    /\ UNCHANGED <<authVars, form_ops, admin_resp, patients, ivr_forms, variants,
                   orders, carekit_resp, served, admin_ops, ivr_resp>>

\* the failure of the invoice or the e-mail reported as a server error
CreateOrder_Respond_raising(w, sent) ==
    /\ req[w].pc = "invoice"
    /\ req' = [req EXCEPT ![w].pc = "done",
                   ![w].steps = Append(@, IF sent THEN "invoice_sent"
                                           ELSE "invoice_failed"),
                   ![w].resp = IF sent
                               THEN [NoResp EXCEPT !.status = 201,
                                         !.order_id = req[w].order]
                               ELSE [NoResp EXCEPT !.status = 500,
                                         !.error = "Server Error"]]
    /\ UNCHANGED <<authVars, form_ops, admin_resp, dbVars, carekit_resp, served,
                   admin_ops, ivr_resp>>

\* lines 207-231: invoice to blob storage and e-mail, whose failure is
\* logged and swallowed, then the 201 response
CreateOrder_Respond(w, sent) ==
    /\ req[w].pc = "invoice"
    /\ req' = [req EXCEPT ![w].pc = "done",
                   ![w].steps = Append(@, IF sent THEN "invoice_sent"
                                           ELSE "invoice_failed"),
                   ![w].resp = [NoResp EXCEPT !.status = 201,
                                    !.order_id = req[w].order]]
    /\ UNCHANGED <<authVars, form_ops, admin_resp, dbVars, carekit_resp, served,
                   admin_ops, ivr_resp>>

(***************************************************************************)
(* The CareKit endpoints.  fields_ok says whether the submitted kit and    *)
(* shipping fields pass the serializer and its validate().                 *)
(***************************************************************************)
\* CareKitOrderCreateSerializer: is_valid() and create()
CareKitOrderCreateSerializer_save(user, patient_id, fields_ok) ==
    IF patient_id \in DOMAIN patients /\ fields_ok
    THEN /\ orders' = Append(orders,
                [provider |-> user, patient |-> patient_id, kind |-> "carekit",
                 approved_ivr |-> has_approved_ivr(patient_id),
                 submitted |-> <<>>])
         /\ carekit_resp' = [status |-> 201, order_id |-> Len(orders) + 1]
    ELSE /\ carekit_resp' = [status |-> 400, order_id |-> 0]
         /\ UNCHANGED orders

create_carekit_order(user, patient_id, fields_ok) ==
    /\ Len(orders) < MaxOrders
    /\ CareKitOrderCreateSerializer_save(user, patient_id, fields_ok)
    /\ UNCHANGED <<authVars, form_ops, admin_resp, patients, ivr_forms, variants,
                   order_items, req, served, admin_ops, ivr_resp>>

reorder_carekit(user, order_id, fields_ok) ==
    /\ Len(orders) < MaxOrders
    /\ IF order_id \in DOMAIN orders /\ orders[order_id].provider = user
       THEN CareKitOrderCreateSerializer_save(user, orders[order_id].patient, fields_ok)
       ELSE /\ carekit_resp' = [status |-> 404, order_id |-> 0]
            /\ UNCHANGED orders
    /\ UNCHANGED <<authVars, form_ops, admin_resp, patients, ivr_forms, variants,
                   order_items, req, served, admin_ops, ivr_resp>>

(***************************************************************************)
(* Admin operations on the rows the order flow reads.                      *)
(***************************************************************************)
\* users with is_staff, whom IsAdminUser lets in
Admins == {"admin", "admin2"}
\* a request body without the key 'status'
NoStatus == ""
\* values a request can carry as status: the choices of the model field and
\* one value outside them
StatusValues == IVR_STATUS_CHOICES \cup {"shipped"}

\* validate_status letting every choice of the field through
validate_status_any_choice(value) == value \in IVR_STATUS_CHOICES

\* IVRFormUpdateStatusSerializer.validate_status
validate_status(value) == value \in {"pending", "approved", "denied", "cancelled"}

\* IVRFormUpdateStatusSerializer.update on row form at time now, for the user
\* of the request: IVRForm.mark_as_approved, .mark_as_denied, or the
\* assignments of the other branches
IVRFormUpdateStatusSerializer_update(form, status, now, reviewed_by) ==
    IF status \in {"approved", "denied"}
    THEN [form EXCEPT !.status = status, !.reviewed_at = now,
                      !.reviewed_by = reviewed_by]
    ELSE IF status = "cancelled"
    THEN [form EXCEPT !.status = status, !.reviewed_at = now]
    ELSE [form EXCEPT !.status = status]

\* AdminIVRFormDetailView.update with IVRFormUpdateStatusSerializer.  The
\* status field is optional (the model field has a default): without it
\* update() assigns None and save() fails on the NOT NULL column.  A value is
\* checked by the field's choices, then by validate_status; a value that
\* fails changes nothing.
AdminIVRFormDetailView_update(admin, form_id, status) ==
    /\ admin_ops < MaxAdminOps
    /\ form_id \in DOMAIN ivr_forms
    /\ IF status = NoStatus
       THEN /\ ivr_forms' = ivr_forms
            /\ admin_resp' = [status |-> 500, error |-> "IntegrityError",
                              form |-> form_id, user |-> admin, value |-> status]
       ELSE IF status \notin IVR_STATUS_CHOICES
       THEN /\ ivr_forms' = ivr_forms
            /\ admin_resp' = [status |-> 400, error |-> "not a valid choice",
                              form |-> form_id, user |-> admin, value |-> status]
       ELSE IF ~validate_status(status)
       THEN /\ ivr_forms' = ivr_forms
            /\ admin_resp' = [status |-> 400, error |-> "Invalid status",
                              form |-> form_id, user |-> admin, value |-> status]
       ELSE /\ ivr_forms' = [ivr_forms EXCEPT ![form_id] =
                               IVRFormUpdateStatusSerializer_update(
                                   @, status, admin_ops + 1, admin)]
            /\ admin_resp' = [status |-> 200, error |-> "", form |-> form_id,
                              user |-> admin, value |-> status]
    /\ admin_ops' = admin_ops + 1
    /\ UNCHANGED <<authVars, patients, variants, orders, order_items, req,
                   carekit_resp, served, ivr_resp, form_ops>>

\* withdraw without the test of the status
IVRForm_withdraw_any_status(form) ==
    [form |-> [form EXCEPT !.status = "withdrawn"], result |-> TRUE]

\* IVRForm.withdraw: the row after the call and what the call returns
IVRForm_withdraw(form) ==
    IF form.status = "pending"
    THEN [form |-> [form EXCEPT !.status = "withdrawn"], result |-> TRUE]
    ELSE [form |-> form, result |-> FALSE]

\* IVRFormWithdrawView.post: get_object_or_404(IVRForm, pk=pk, provider=user),
\* then withdraw()
IVRFormWithdrawView_post(user, pk) ==
    /\ IF pk \in DOMAIN ivr_forms /\ ivr_forms[pk].provider = user
       THEN /\ ivr_forms' = [ivr_forms EXCEPT ![pk] = IVRForm_withdraw(@).form]
            /\ ivr_resp' =
                 IF IVRForm_withdraw(ivr_forms[pk]).result
                 THEN [status |-> 200, error |-> "", form |-> pk, user |-> user]
                 ELSE [status |-> 400,
                       error |-> "Only pending IVR forms can be withdrawn",
                       form |-> pk, user |-> user]
       ELSE /\ ivr_resp' = [status |-> 404, error |-> "Not found", form |-> pk,
                            user |-> user]
            /\ UNCHANGED ivr_forms
    /\ UNCHANGED <<authVars, form_ops, admin_resp, patients, variants, orders,
                   order_items, req, carekit_resp, served, admin_ops>>

(***************************************************************************)
(* The providers' endpoints that create and update IVR forms.              *)
(***************************************************************************)
\* patient ids a request names: a patient of p1, a patient of p2, an id
\* without a row; NoPatientId when the request names none
FormPatientIds == {NoPatientId, 1, 5, Len(InitPatients) + 1}
\* form ids a provider's update names: a pending form of p1, the form of p2,
\* the id after the initial rows (no row, or the first form created)
UpdateFormIds == {3, 5, Len(InitIvrForms) + 1}
\* form ids an admin's update names: an approved form and a pending form
AdminFormIds == {1, 3}
\* status values a provider's update carries
FormStatusValues == {NoStatus, "approved", "denied", "shipped"}

\* IVRFormListCreateView (POST) with IVRFormCreateSerializer: patient is a
\* primary key of any Patient row, status is no field of the serializer, the
\* provider is the user of the request
IVRFormListCreateView_create(user, patient_id) ==
    /\ form_ops < MaxFormOps
    /\ form_ops' = form_ops + 1
    /\ IF patient_id \notin DOMAIN patients
       THEN /\ ivr_resp' = [status |-> 400, error |-> "patient", form |-> 0,
                            user |-> user]
            /\ UNCHANGED ivr_forms
       ELSE /\ ivr_forms' = Append(ivr_forms, IvrForm(patient_id, user, "pending"))
            /\ ivr_resp' = [status |-> 201, error |-> "", form |-> Len(ivr_forms) + 1,
                            user |-> user]
    /\ UNCHANGED <<authVars, patients, variants, orders, order_items, req,
                   carekit_resp, served, admin_ops, admin_resp>>

\* save_patient_vr_form: the patient of the requester, the PDF made and
\* stored (pdf_ok), the row created with status 'pending', the SAS URL made
\* (sas_ok) and saved
save_patient_vr_form(user, patient_id, pdf_ok, sas_ok) ==
    /\ form_ops < MaxFormOps
    /\ form_ops' = form_ops + 1
    /\ IF patient_id = NoPatientId
       THEN /\ ivr_resp' = [status |-> 400, error |-> "Missing 'patient_id'",
                            form |-> 0, user |-> user]
            /\ UNCHANGED ivr_forms
       ELSE IF ~(patient_id \in DOMAIN patients /\ patients[patient_id].provider = user)
       THEN /\ ivr_resp' = [status |-> 404, error |-> "Patient not found",
                            form |-> 0, user |-> user]
            /\ UNCHANGED ivr_forms
       ELSE IF ~pdf_ok
       THEN /\ ivr_resp' = [status |-> 500, error |-> "Failed to process", form |-> 0,
                            user |-> user]
            /\ UNCHANGED ivr_forms
       ELSE /\ ivr_forms' = Append(ivr_forms, IvrForm(patient_id, user, "pending"))
            /\ ivr_resp' = IF sas_ok
                           THEN [status |-> 201, error |-> "",
                                 form |-> Len(ivr_forms) + 1, user |-> user]
                           ELSE [status |-> 500, error |-> "Failed to process",
                                 form |-> 0, user |-> user]
    /\ UNCHANGED <<authVars, patients, variants, orders, order_items, req,
                   carekit_resp, served, admin_ops, admin_resp>>

\* IVRFormSerializer on an update: patient and status are writable fields;
\* the row with the submitted values put in (NoPatientId, NoStatus: not
\* submitted)
IVRFormSerializer_update(form, patient_id, status) ==
    [form EXCEPT !.patient = IF patient_id = NoPatientId THEN @ ELSE patient_id,
                 !.status = IF status = NoStatus THEN @ ELSE status]

\* IVRFormDetailView (PUT, PATCH) with IVRFormSerializer: the form is looked
\* up among the requester's forms; PUT (~partial) requires the patient
IVRFormDetailView_update(user, pk, patient_id, status, partial) ==
    /\ form_ops < MaxFormOps
    /\ form_ops' = form_ops + 1
    /\ IF ~(pk \in DOMAIN ivr_forms /\ ivr_forms[pk].provider = user)
       THEN /\ ivr_resp' = [status |-> 404, error |-> "Not found", form |-> pk,
                            user |-> user]
            /\ UNCHANGED ivr_forms
       ELSE IF \/ (patient_id = NoPatientId /\ ~partial)
               \/ (patient_id # NoPatientId /\ patient_id \notin DOMAIN patients)
       THEN /\ ivr_resp' = [status |-> 400, error |-> "patient", form |-> pk,
                            user |-> user]
            /\ UNCHANGED ivr_forms
       ELSE IF status # NoStatus /\ status \notin IVR_STATUS_CHOICES
       THEN /\ ivr_resp' = [status |-> 400, error |-> "not a valid choice",
                            form |-> pk, user |-> user]
            /\ UNCHANGED ivr_forms
       ELSE /\ ivr_forms' = [ivr_forms EXCEPT ![pk] =
                               IVRFormSerializer_update(@, patient_id, status)]
            /\ ivr_resp' = [status |-> 200, error |-> "", form |-> pk, user |-> user]
    /\ UNCHANGED <<authVars, patients, variants, orders, order_items, req,
                   carekit_resp, served, admin_ops, admin_resp>>

\* ProductVariantInline: a variant row is deleted; OrderItem.variant is
\* on_delete=SET_NULL
AdminDeleteVariant(variant_id) ==
    /\ admin_ops < MaxAdminOps
    /\ variant_id \in DOMAIN variants
    /\ variants' = [v \in DOMAIN variants \ {variant_id} |-> variants[v]]
    /\ order_items' = [i \in DOMAIN order_items |->
                         IF order_items[i].variant = variant_id
                         THEN [order_items[i] EXCEPT !.variant = 0]
                         ELSE order_items[i]]
    /\ admin_ops' = admin_ops + 1
    /\ UNCHANGED <<authVars, form_ops, admin_resp, patients, ivr_forms, orders, req,
                   carekit_resp, served, ivr_resp>>

\* the steps of a CreateOrderView.create request
CreateOrder(item_lists) ==
    \/ CreateOrder_Receive(item_lists)
    \/ \E w \in Workers, db_ok \in BOOLEAN : CreateOrder_SaveOrder(w, db_ok)
    \/ \E w \in Workers, db_ok \in BOOLEAN : CreateOrder_SaveItem(w, db_ok)
    \/ \E w \in Workers, sent \in BOOLEAN : CreateOrder_Respond(w, sent)

\* Order creation while the catalogue and the IVR forms are administered.
Next ==
    \/ CreateOrder(ItemLists)
    \/ \E variant_id \in DOMAIN variants : AdminDeleteVariant(variant_id)
    \/ \E form_id \in DOMAIN ivr_forms, status \in IVR_STATUS_CHOICES :
            AdminIVRFormDetailView_update("admin", form_id, status)

Spec == Init /\ [][Next]_vars

\* The three order-creating operations of the API.
NextOrders ==
    \/ CreateOrder(ShortItemLists)
    \/ \E user \in Providers, patient_id \in PatientIds, fields_ok \in BOOLEAN :
            create_carekit_order(user, patient_id, fields_ok)
    \/ \E user \in Providers, order_id \in 1..MaxOrders, fields_ok \in BOOLEAN :
            reorder_carekit(user, order_id, fields_ok)

SpecOrders == Init /\ [][NextOrders]_vars

\* Concurrent requests of provider p1 for the patients 1 and 2, whose checks
\* and inserts interleave.
NextRace ==
    \/ CreateOrder_ReceiveFrom({"p1"}, {1, 2}, ShortItemLists, MaxConcurrent)
    \/ \E w \in Workers, db_ok \in BOOLEAN : CreateOrder_SaveOrder(w, db_ok)
    \/ \E w \in Workers, db_ok \in BOOLEAN : CreateOrder_SaveItem(w, db_ok)
    \/ \E w \in Workers, sent \in BOOLEAN : CreateOrder_Respond(w, sent)

SpecRace == Init /\ [][NextRace]_vars

(***************************************************************************)
(* The catalogue's size strings.  A dimension is its text, the text of ten *)
(* times the dimension, and its value.                                     *)
(***************************************************************************)
SizeDims ==
    {[text |-> <<"2">>, text10 |-> <<"2", "0">>, val |-> Dec(2, 0)],
     [text |-> <<"2", ".", "5">>, text10 |-> <<"2", "5">>, val |-> Dec(25, 1)],
     [text |-> <<"0", ".", "5">>, text10 |-> <<"5">>, val |-> Dec(5, 1)],
     [text |-> <<"1", "0">>, text10 |-> <<"1", "0", "0">>, val |-> Dec(10, 0)]}
Separators == {"x", "X", "×"}
Gaps == {<<>>, <<" ">>}
CmUnits == {<<>>, <<"c", "m">>, <<"C", "M">>, <<"C", "m">>}
MmUnits == {<<"m", "m">>, <<"M", "M">>}

\* "<a><gap><sep><gap><b><gap><unit>"
SizeText(a, b, sep, gap, unit) ==
    a \o gap \o <<sep>> \o gap \o b \o (IF unit = <<>> THEN <<>> ELSE gap \o unit)

\* sizes in centimetres and the same sizes in millimetres
CmSizes ==
    {SizeText(a.text, b.text, sep, gap, unit) :
        a \in SizeDims, b \in SizeDims, sep \in Separators, gap \in Gaps,
        unit \in CmUnits}
MmSizes ==
    {SizeText(a.text10, b.text10, sep, gap, unit) :
        a \in SizeDims, b \in SizeDims, sep \in Separators, gap \in Gaps,
        unit \in MmUnits}
\* sizes with a unit that is neither mm nor cm
OtherUnitSizes ==
    {<<"2", " ", "x", " ", "2", " ", "i", "n">>,
     <<"2", "x", "2", "i", "n", "c", "h">>,
     <<"2", " ", "x", " ", "2", " ", "m">>,
     <<"2", "0", "x", "2", "0", " ", "f", "t">>}
\* sizes that are no "number x number": empty, text, a dimension missing
NoSizes ==
    {<<>>, <<"l", "a", "r", "g", "e">>, <<"2", " ", "x">>, <<"x", "2">>,
     <<"2", ".", "x", "2">>, <<" ", "2", "x", "2">>, <<"2", "c", "m">>}
SizeStrings == CmSizes \cup MmSizes \cup OtherUnitSizes \cup NoSizes

\* The catalogue's first variant has any of the size strings.
InitSizes ==
    /\ patients = InitPatients
    /\ ivr_forms = InitIvrForms
    /\ \E size \in SizeStrings :
          variants = [v \in 1..Len(InitVariants) |->
                        IF v = 1 THEN size ELSE InitVariants[v]]
    /\ orders = <<>>
    /\ order_items = <<>>
    /\ req = [w \in Workers |-> IdleReq]
    /\ carekit_resp = [status |-> 0, order_id |-> 0]
    /\ ivr_resp = NoIvrResp
    /\ admin_resp = NoAdminResp
    /\ form_ops = 0
    /\ served = 0
    /\ admin_ops = 0
    /\ InitAuth

\* Requests of provider p1 for patient 1 (4.00 x 4.00).
NextMeasures ==
    \/ CreateOrder_ReceiveFrom({"p1"}, {1}, ShortItemLists, MaxRequests)
    \/ \E w \in Workers, db_ok \in BOOLEAN : CreateOrder_SaveOrder(w, db_ok)
    \/ \E w \in Workers, db_ok \in BOOLEAN : CreateOrder_SaveItem(w, db_ok)
    \/ \E w \in Workers, sent \in BOOLEAN : CreateOrder_Respond(w, sent)

SpecSizes == InitSizes /\ [][NextMeasures]_vars

\* Wound lengths and widths a Patient row can hold, as
\* DecimalField(max_digits=5, decimal_places=2) stores them: 0.01, 1.00, 1.25,
\* 3.33, 4.00 and 10.00, and the longest wound with the narrowest.
WoundDims == {Dec(1, 2), Dec(100, 2), Dec(125, 2), Dec(333, 2), Dec(400, 2), Dec(1000, 2)}
WoundSizes == (WoundDims \X WoundDims) \cup {<<Dec(99999, 2), Dec(1, 2)>>}

\* Patient 1's wound has any of the sizes.
InitWounds ==
    /\ \E size \in WoundSizes :
          patients = [InitPatients EXCEPT ![1].wound_size_length = size[1],
                                          ![1].wound_size_width = size[2]]
    /\ ivr_forms = InitIvrForms
    /\ variants = [v \in 1..Len(InitVariants) |-> InitVariants[v]]
    /\ orders = <<>>
    /\ order_items = <<>>
    /\ req = [w \in Workers |-> IdleReq]
    /\ carekit_resp = [status |-> 0, order_id |-> 0]
    /\ ivr_resp = NoIvrResp
    /\ admin_resp = NoAdminResp
    /\ form_ops = 0
    /\ served = 0
    /\ admin_ops = 0
    /\ InitAuth

SpecWounds == InitWounds /\ [][NextMeasures]_vars

\* ids a request to an IVR form endpoint can name: the rows and one id beyond
IvrFormIds == 1..(Len(InitIvrForms) + 1)

\* the submitted items where the IVR forms are what varies: none, or one unit
\* of the first variant
GateItemLists == {<<>>, <<[variant |-> 1, quantity |-> Qty(1)]>>}

\* Order creation while providers withdraw IVR forms and the admin reviews them.
NextIVR ==
    \/ CreateOrder(GateItemLists)
    \/ \E user \in Providers, pk \in IvrFormIds : IVRFormWithdrawView_post(user, pk)
    \/ \E form_id \in DOMAIN ivr_forms, status \in IVR_STATUS_CHOICES :
            AdminIVRFormDetailView_update("admin", form_id, status)

SpecIVR == Init /\ [][NextIVR]_vars

\* The operations on IVR forms: the providers' and the admins'.
NextForms ==
    \/ \E user \in Providers, patient_id \in FormPatientIds :
            IVRFormListCreateView_create(user, patient_id)
    \/ \E user \in Providers, patient_id \in FormPatientIds, pdf_ok, sas_ok \in BOOLEAN :
            save_patient_vr_form(user, patient_id, pdf_ok, sas_ok)
    \/ \E user \in Providers, pk \in UpdateFormIds, patient_id \in FormPatientIds,
          status \in FormStatusValues, partial \in BOOLEAN :
            IVRFormDetailView_update(user, pk, patient_id, status, partial)
    \/ \E admin \in Admins, form_id \in AdminFormIds,
          status \in StatusValues \cup {NoStatus} :
            AdminIVRFormDetailView_update(admin, form_id, status)

SpecForms == Init /\ [][NextForms]_vars

(***************************************************************************)
(* Login with a verification code: MyTokenObtainPairView.post,             *)
(* SignBAAView.update and VerifyCodeView.create.  A login and a BAA        *)
(* signing delete the user's Verification_Code rows in one statement and   *)
(* create the new row in a later one; a verification reads the row and     *)
(* deletes it in a later statement.  Requests of several workers           *)
(* interleave between the statements.                                      *)
(***************************************************************************)
\* minutes the clock advances in one step
TickMinutes == 5
\* timedelta(minutes=10)
CodeLifetime == 10
\* str(random.randint(100000, 999999)): two of the values
Codes == {"111111", "222222"}
Methods == {"email", "sms"}
\* session ids a verification request can name (str(uuid.uuid4()) of the
\* n-th request is n), or none
SessionIds == NoSession..MaxAuthRequests

\* the first worker that handles no login request
FirstFreeAuth ==
    IF \E w \in Workers : auth_req[w].pc \in {"idle", "done"}
    THEN CHOOSE w \in Workers :
            /\ auth_req[w].pc \in {"idle", "done"}
            /\ \A v \in Workers : auth_req[v].pc \in {"idle", "done"} => w <= v
    ELSE 0

\* a request answered with an error
AuthRejected(op, user, session_id, code, status, error) ==
    [pc |-> "done", op |-> op, user |-> user, method |-> "", session_id |-> session_id,
     code |-> code, resp |-> [NoAuthResp EXCEPT !.status = status, !.error = error]]

\* Verification_Code.objects.filter(user=user).delete()
DeleteCodesOf(user) == {r \in codes : r.user # user}

\* MyTokenObtainPairView.post, lines 44-98: the serializer checks the
\* credentials and makes the tokens; without a signed BAA the answer is 403
\* with the access token; else the user's old codes are deleted
Login_Receive(user, password_ok, method) ==
    /\ auth_served < MaxAuthRequests
    /\ FirstFreeAuth \in Workers
    /\ auth_served' = auth_served + 1
    /\ IF ~password_ok
       THEN /\ auth_req' = [auth_req EXCEPT ![FirstFreeAuth] =
                   AuthRejected("login", user, NoSession, NoCode, 400,
                                "No active account found")]
            /\ UNCHANGED <<codes, tokens>>
       ELSE IF ~has_signed_baa[user]
       THEN /\ auth_req' = [auth_req EXCEPT ![FirstFreeAuth] =
                   [pc |-> "done", op |-> "login", user |-> user, method |-> method,
                    session_id |-> NoSession, code |-> NoCode,
                    resp |-> [NoAuthResp EXCEPT !.status = 403,
                                                !.error = "baa_required",
                                                !.access = user]]]
            /\ tokens' = tokens \cup {[user |-> user, by |-> "baa_required",
                                       session_id |-> NoSession]}
            /\ UNCHANGED codes
       ELSE /\ codes' = DeleteCodesOf(user)
            /\ auth_req' = [auth_req EXCEPT ![FirstFreeAuth] =
                   [pc |-> "login_send", op |-> "login", user |-> user,
                    method |-> method, session_id |-> auth_served + 1,
                    code |-> NoCode, resp |-> NoAuthResp]]
            /\ UNCHANGED tokens
    /\ UNCHANGED <<portalVars, clock, has_signed_baa, mailed>>

\* MyTokenObtainPairView.post, lines 100-198: by sms the Twilio verification
\* is started and then the row created (code ''); by email the row is
\* created with a random code and then the mail sent.  sent says whether
\* Twilio or the mail server accepted; the 200 response carries the access
\* and refresh tokens and the session id
Login_Send(w, sent, code) ==
    /\ auth_req[w].pc = "login_send"
    /\ codes' =
         IF auth_req[w].method = "sms" /\ ~sent THEN codes
         ELSE codes \cup {[user |-> auth_req[w].user,
                           code |-> IF auth_req[w].method = "sms" THEN NoCode ELSE code,
                           method |-> auth_req[w].method,
                           session_id |-> auth_req[w].session_id,
                           created_at |-> clock]}
    /\ mailed' = IF auth_req[w].method = "email" /\ sent
                 THEN mailed \cup {[user |-> auth_req[w].user, code |-> code,
                                    session_id |-> auth_req[w].session_id]}
                 ELSE mailed
    /\ IF sent
       THEN /\ auth_req' = [auth_req EXCEPT ![w].pc = "done",
                   ![w].resp = [NoAuthResp EXCEPT !.status = 200,
                                    !.access = auth_req[w].user,
                                    !.refresh = auth_req[w].user,
                                    !.session_id = auth_req[w].session_id]]
            /\ tokens' = tokens \cup {[user |-> auth_req[w].user, by |-> "login",
                                       session_id |-> auth_req[w].session_id]}
       ELSE /\ auth_req' = [auth_req EXCEPT ![w].pc = "done",
                   ![w].resp = [NoAuthResp EXCEPT !.status = 500,
                                    !.error = "Failed to send"]]
            /\ UNCHANGED tokens
    /\ UNCHANGED <<portalVars, clock, has_signed_baa, auth_served>>

\* SignBAAView.update, lines 690-794, for a user who presents an access
\* token: the PDF is stored (stored), has_signed_baa set, the PDF mailed
\* (mailed_ok), the user's old codes deleted
SignBAA_Receive(user, stored, mailed_ok) ==
    /\ auth_served < MaxAuthRequests
    /\ FirstFreeAuth \in Workers
    /\ \E t \in tokens : t.user = user
    /\ auth_served' = auth_served + 1
    /\ IF has_signed_baa[user]
       THEN /\ auth_req' = [auth_req EXCEPT ![FirstFreeAuth] =
                   AuthRejected("sign_baa", user, NoSession, NoCode, 400,
                                "BAA already signed.")]
            /\ UNCHANGED <<codes, has_signed_baa>>
       ELSE IF ~stored
       THEN /\ auth_req' = [auth_req EXCEPT ![FirstFreeAuth] =
                   AuthRejected("sign_baa", user, NoSession, NoCode, 500,
                                "Failed to process BAA signature.")]
            /\ UNCHANGED <<codes, has_signed_baa>>
       ELSE IF ~mailed_ok
       THEN /\ has_signed_baa' = [has_signed_baa EXCEPT ![user] = TRUE]
            /\ auth_req' = [auth_req EXCEPT ![FirstFreeAuth] =
                   AuthRejected("sign_baa", user, NoSession, NoCode, 500,
                                "Failed to process BAA signature.")]
            /\ UNCHANGED codes
       ELSE /\ has_signed_baa' = [has_signed_baa EXCEPT ![user] = TRUE]
            /\ codes' = DeleteCodesOf(user)
            /\ auth_req' = [auth_req EXCEPT ![FirstFreeAuth] =
                   [pc |-> "baa_send", op |-> "sign_baa", user |-> user,
                    method |-> "email", session_id |-> auth_served + 1,
                    code |-> NoCode, resp |-> NoAuthResp]]
    /\ UNCHANGED <<portalVars, clock, tokens, mailed>>

\* SignBAAView.update, lines 796-828: the row is created with a random code,
\* the mail sent; the 200 response carries an access token and the session id
SignBAA_Send(w, sent, code) ==
    /\ auth_req[w].pc = "baa_send"
    /\ codes' = codes \cup {[user |-> auth_req[w].user, code |-> code,
                             method |-> "email",
                             session_id |-> auth_req[w].session_id,
                             created_at |-> clock]}
    /\ IF sent
       THEN /\ mailed' = mailed \cup {[user |-> auth_req[w].user, code |-> code,
                                       session_id |-> auth_req[w].session_id]}
            /\ auth_req' = [auth_req EXCEPT ![w].pc = "done",
                   ![w].resp = [NoAuthResp EXCEPT !.status = 200,
                                    !.access = auth_req[w].user,
                                    !.session_id = auth_req[w].session_id]]
            /\ tokens' = tokens \cup {[user |-> auth_req[w].user, by |-> "sign_baa",
                                       session_id |-> auth_req[w].session_id]}
       ELSE /\ auth_req' = [auth_req EXCEPT ![w].pc = "done",
                   ![w].resp = [NoAuthResp EXCEPT !.status = 500,
                                    !.error = "Failed to process BAA signature."]]
            /\ UNCHANGED <<tokens, mailed>>
    /\ UNCHANGED <<portalVars, clock, has_signed_baa, auth_served>>

\* Verification_Code rows of a session
CodesOf(session_id) == {r \in codes : r.session_id = session_id}
\* .order_by('-created_at').first()
LatestCode(session_id) ==
    CHOOSE r \in CodesOf(session_id) :
        \A q \in CodesOf(session_id) : q.created_at <= r.created_at

\* the expiry test with a lifetime of an hour
Expired_after_an_hour(record, at) == at - record.created_at > 60

\* timezone.now() - verification_record.created_at > timedelta(minutes=10)
Expired(record, at) == at - record.created_at > CodeLifetime

\* VerifyCodeView.create, lines 346-424: the row of the session is looked up
\* and tested for its age and its code (by sms Twilio decides: approved)
VerifyCode_Receive(session_id, code, approved) ==
    /\ auth_served < MaxAuthRequests
    /\ FirstFreeAuth \in Workers
    /\ auth_served' = auth_served + 1
    /\ IF session_id = NoSession \/ code = NoCode
       THEN /\ auth_req' = [auth_req EXCEPT ![FirstFreeAuth] =
                   AuthRejected("verify", "", session_id, code, 400,
                                "Missing session_id or code")]
            /\ UNCHANGED codes
       ELSE IF CodesOf(session_id) = {}
       THEN /\ auth_req' = [auth_req EXCEPT ![FirstFreeAuth] =
                   AuthRejected("verify", "", session_id, code, 400,
                                "Invalid or expired session")]
            /\ UNCHANGED codes
       ELSE IF Expired(LatestCode(session_id), clock)
       THEN /\ codes' = codes \ {LatestCode(session_id)}
            /\ auth_req' = [auth_req EXCEPT ![FirstFreeAuth] =
                   AuthRejected("verify", LatestCode(session_id).user, session_id,
                                code, 400, "Verification code has expired")]
       ELSE IF \/ LatestCode(session_id).method = "sms" /\ ~approved
               \/ LatestCode(session_id).method = "email"
                  /\ LatestCode(session_id).code # code
       THEN /\ auth_req' = [auth_req EXCEPT ![FirstFreeAuth] =
                   AuthRejected("verify", LatestCode(session_id).user, session_id,
                                code, 400, "Invalid verification code")]
            /\ UNCHANGED codes
       ELSE /\ auth_req' = [auth_req EXCEPT ![FirstFreeAuth] =
                   [pc |-> "verify_issue", op |-> "verify",
                    user |-> LatestCode(session_id).user,
                    method |-> LatestCode(session_id).method,
                    session_id |-> session_id, code |-> code, resp |-> NoAuthResp]]
            /\ UNCHANGED codes
    /\ UNCHANGED <<portalVars, clock, has_signed_baa, tokens, mailed>>

\* the verification answered without deleting the row
VerifyCode_Issue_keeping_code(w) ==
    /\ auth_req[w].pc = "verify_issue"
    /\ tokens' = tokens \cup {[user |-> auth_req[w].user, by |-> "verify",
                               session_id |-> auth_req[w].session_id]}
    /\ auth_req' = [auth_req EXCEPT ![w].pc = "done",
           ![w].resp = [NoAuthResp EXCEPT !.status = 200, !.verified = TRUE,
                            !.access = auth_req[w].user,
                            !.refresh = auth_req[w].user]]
    /\ UNCHANGED <<portalVars, codes, clock, has_signed_baa, mailed, auth_served>>

\* VerifyCodeView.create, lines 426-440: the tokens are made, the row
\* deleted, the tokens returned
VerifyCode_Issue(w) ==
    /\ auth_req[w].pc = "verify_issue"
    /\ tokens' = tokens \cup {[user |-> auth_req[w].user, by |-> "verify",
                               session_id |-> auth_req[w].session_id]}
    /\ codes' = {r \in codes : r.session_id # auth_req[w].session_id}
    /\ auth_req' = [auth_req EXCEPT ![w].pc = "done",
           ![w].resp = [NoAuthResp EXCEPT !.status = 200, !.verified = TRUE,
                            !.access = auth_req[w].user,
                            !.refresh = auth_req[w].user]]
    /\ UNCHANGED <<portalVars, clock, has_signed_baa, mailed, auth_served>>

\* time passes
Tick ==
    /\ clock < MaxTime
    /\ clock' = clock + TickMinutes
    /\ UNCHANGED <<portalVars, codes, has_signed_baa, auth_req, tokens, mailed,
                   auth_served>>

NextAuth ==
    \/ \E user \in Providers, password_ok \in BOOLEAN, method \in Methods :
            Login_Receive(user, password_ok, method)
    \/ \E w \in Workers, sent \in BOOLEAN, code \in Codes : Login_Send(w, sent, code)
    \/ \E user \in Providers, stored, mailed_ok \in BOOLEAN :
            SignBAA_Receive(user, stored, mailed_ok)
    \/ \E w \in Workers, sent \in BOOLEAN, code \in Codes : SignBAA_Send(w, sent, code)
    \/ \E session_id \in SessionIds, code \in Codes \cup {NoCode}, approved \in BOOLEAN :
            VerifyCode_Receive(session_id, code, approved)
    \/ \E w \in Workers : VerifyCode_Issue(w)
    \/ Tick

SpecAuth == Init /\ [][NextAuth]_vars

(***************************************************************************)
(* What the claims speak about, stated on the tables and the submitted     *)
(* data, apart from the handler.                                           *)
(***************************************************************************)
\* the patient exists and belongs to user
Owns(user, pid) == pid \in 1..Len(patients) /\ patients[pid].provider = user
\* some IVR form of the patient is approved
SomeApprovedForm(pid) ==
    \E f \in 1..Len(ivr_forms) :
        ivr_forms[f].patient = pid /\ ivr_forms[f].status = "approved"
\* the patient has a wound length and a wound width on record
WoundRecorded(pid) ==
    /\ ~patients[pid].wound_size_length.null /\ patients[pid].wound_size_length.n # 0
    /\ ~patients[pid].wound_size_width.null /\ patients[pid].wound_size_width.n # 0
\* the patient passes the eligibility gate for user
Eligible(user, pid) == Owns(user, pid) /\ SomeApprovedForm(pid) /\ WoundRecorded(pid)

\* area of a catalogue variant (the catalogue's sizes never change)
CatalogArea(v) ==
    IF v \in 1..Len(InitVariants) THEN parse_variant_size_to_cm2(InitVariants[v])
    ELSE Dec(0, 0)
\* area x quantity of one submitted line; a variant without area adds nothing
LineArea(item) ==
    IF CatalogArea(item.variant).n = 0 THEN Dec(0, 0)
    ELSE DecMul(CatalogArea(item.variant), Dec(item.quantity.v, 0))
\* sum of area x quantity over the first n submitted lines
RECURSIVE SubmittedArea(_, _)
SubmittedArea(items, n) ==
    IF n = 0 THEN Dec(0, 0)
    ELSE DecAdd(SubmittedArea(items, n - 1), LineArea(items[n]))
\* units of variant v over the submitted lines
RECURSIVE Units(_, _, _)
Units(items, n, v) ==
    IF n = 0 THEN 0
    ELSE Units(items, n - 1, v)
         + (IF items[n].variant = v /\ items[n].quantity.isnum
            THEN items[n].quantity.v ELSE 0)
WoundArea(pid) ==
    DecMul(patients[pid].wound_size_length, patients[pid].wound_size_width)
\* 1.2 x wound length x wound width
AreaCap(pid) == DecMul(WoundArea(pid), Dec(12, 1))

\* the request of worker w went through step name
Did(w, name) == \E i \in 1..Len(req[w].steps) : req[w].steps[i] = name
\* a request arrives at worker w in this step
Arrives(w) == served' = served + 1 /\ req'[w] # req[w]
DidNext(w, name) == \E i \in 1..Len(req'[w].steps) : req'[w].steps[i] = name
\* worker w answered with this error
Answered(w, status, error) ==
    req[w].pc = "done" /\ req[w].resp.status = status /\ req[w].resp.error = error
AnsweredNext(w, status, error) ==
    req'[w].pc = "done" /\ req'[w].resp.status = status /\ req'[w].resp.error = error
IvrDetail == "Patient must have an approved IVR to place orders"
WoundDetail == "Patient must have wound size recorded"
\* rows of order_items that belong to order o
ItemRows(o) == {i \in 1..Len(order_items) : order_items[i].order = o}
\* the request of worker w wrote nothing
WroteNothing(w) ==
    req[w].order = 0 /\ ~Did(w, "order_insert") /\ ~Did(w, "item_insert")
WroteNothingNext(w) ==
    /\ req'[w].order = 0 /\ ~DidNext(w, "order_insert") /\ ~DidNext(w, "item_insert")
    /\ orders' = orders /\ order_items' = order_items

(***************************************************************************)
(* C1: a request for a patient of the requesting provider who has no       *)
(* approved IVR form is answered 400 with the IVR error, whatever its      *)
(* items are, before any variant is looked up or any area is computed, and *)
(* it writes no Order and no OrderItem.                                    *)
(***************************************************************************)
C1_IvrGateFirst ==
    [][\A w \in Workers :
          (/\ Arrives(w)
           /\ Owns(req'[w].user, req'[w].patient)
           /\ ~SomeApprovedForm(req'[w].patient))
          => /\ AnsweredNext(w, 400, "Cannot place order")
             /\ req'[w].resp.detail = IvrDetail
             /\ ~DidNext(w, "wound_area") /\ ~DidNext(w, "variant_lookup")
             /\ ~DidNext(w, "variant_area") /\ ~DidNext(w, "item_area")
             /\ ~DidNext(w, "area_check")
             /\ WroteNothingNext(w)]_vars

\* an IVR rejection of a request with a malformed line, for a patient whose
\* wound size is on record
C1_Witness ==
    \E w \in Workers :
        /\ Answered(w, 400, "Cannot place order")
        /\ req[w].resp.detail = IvrDetail
        /\ Owns(req[w].user, req[w].patient)
        /\ WoundRecorded(req[w].patient)
        /\ ~SomeApprovedForm(req[w].patient)
        /\ \E i \in 1..Len(req[w].items) : ~req[w].items[i].quantity.isnum

(***************************************************************************)
(* C2: every Order row was created for a patient who had an approved IVR   *)
(* form when the row was created, whichever operation created it.          *)
(***************************************************************************)
C2_OrdersNeedApprovedIvr ==
    \A o \in 1..Len(orders) : orders[o].approved_ivr

(***************************************************************************)
(* C3: every order persisted by CreateOrderView.create keeps the per-order *)
(* cap: the sum over its submitted lines of area x quantity is at most     *)
(* 1.2 x wound length x wound width of its patient.                        *)
(***************************************************************************)
C3_PersistedWithinCap ==
    \A o \in 1..Len(orders) :
        orders[o].kind = "items"
        => DecLE(SubmittedArea([i \in 1..Len(orders[o].submitted) |->
                                  [variant |-> orders[o].submitted[i].variant,
                                   quantity |-> Qty(orders[o].submitted[i].quantity)]],
                               Len(orders[o].submitted)),
                 AreaCap(orders[o].patient))

\* a persisted order of two lines with a positive area
C3_Witness ==
    \E o \in 1..Len(orders) :
        /\ orders[o].kind = "items"
        /\ Len(orders[o].submitted) = 2
        /\ \A i \in 1..2 : /\ CatalogArea(orders[o].submitted[i].variant).n > 0
                           /\ orders[o].submitted[i].quantity > 0
        /\ Cardinality(ItemRows(o)) = 2

(***************************************************************************)
(* C4: a request that reaches the area check is rejected for its area      *)
(* exactly when the total ordered area is strictly greater than 1.2 x the  *)
(* wound area; a total equal to the limit passes and goes on to the        *)
(* serializer and persistence.                                             *)
(***************************************************************************)
AreaRejected(w) == Answered(w, 400, "Order exceeds maximum allowed area")
OverCap(w) ==
    DecGT(SubmittedArea(req[w].items, Len(req[w].items)), AreaCap(req[w].patient))

C4_RejectOnlyAboveCap ==
    \A w \in Workers :
        Did(w, "area_check")
        => /\ AreaRejected(w) <=> OverCap(w)
           /\ ~OverCap(w) => (req[w].pc # "done" \/ Did(w, "is_valid"))

\* an order whose total ordered area equals the limit was persisted
C4_Witness ==
    \E w \in Workers :
        /\ Did(w, "area_check")
        /\ DecEq(SubmittedArea(req[w].items, Len(req[w].items)),
                 AreaCap(req[w].patient))
        /\ Answered(w, 201, "")
        /\ Cardinality(ItemRows(req[w].order)) = Len(req[w].items)

(***************************************************************************)
(* C5: an area rejection is a 400 that carries the wound area, the limit   *)
(* and the total ordered area of that request (16, 19.2 and 20 for a 4x4   *)
(* wound and 5 units of the 2x2cm variant), and the request writes         *)
(* nothing.                                                                *)
(***************************************************************************)
FiveUnitsOn4x4(w) ==
    /\ patients[req[w].patient].wound_size_length = Dec(400, 2)
    /\ patients[req[w].patient].wound_size_width = Dec(400, 2)
    /\ \A i \in 1..Len(req[w].items) : req[w].items[i].variant = 1
    /\ Units(req[w].items, Len(req[w].items), 1) = 5

C5_AreaRejectionFigures ==
    \A w \in Workers :
        AreaRejected(w)
        => /\ DecEq(req[w].resp.wound_area, WoundArea(req[w].patient))
           /\ DecEq(req[w].resp.max_allowed_area, AreaCap(req[w].patient))
           /\ DecEq(req[w].resp.total_ordered_area,
                    SubmittedArea(req[w].items, Len(req[w].items)))
           /\ WroteNothing(w)
           /\ FiveUnitsOn4x4(w)
              => /\ req[w].resp.wound_area = Dec(16, 0)
                 /\ req[w].resp.max_allowed_area = Dec(192, 1)
                 /\ req[w].resp.total_ordered_area = Dec(20, 0)

\* the rejection of 5 units of the 2x2cm variant for the 4x4 wound
C5_Witness == \E w \in Workers : AreaRejected(w) /\ FiveUnitsOn4x4(w)

(***************************************************************************)
(* C6 as claimed: every request without items is answered with the         *)
(* empty-order rejection before any area, the wound area included, is      *)
(* computed.                                                               *)
(***************************************************************************)
EmptyOrderError == "Order must contain at least one item"

C6_EmptyAlwaysEmptyOrder ==
    \A w \in Workers :
        (req[w].pc # "idle" /\ req[w].items = <<>>)
        => /\ Answered(w, 400, EmptyOrderError)
           /\ ~Did(w, "wound_area")
           /\ WroteNothing(w)

(***************************************************************************)
(* C6 amended: a request without items writes nothing and never reaches a  *)
(* variant lookup or an item area; it is answered with the empty-order     *)
(* rejection exactly when its patient passes the patient, IVR and wound    *)
(* size checks, and by then the wound area and the limit are computed.     *)
(***************************************************************************)
C6_EmptyAfterGate ==
    [][\A w \in Workers :
          (Arrives(w) /\ req'[w].items = <<>>)
          => /\ req'[w].pc = "done"
             /\ WroteNothingNext(w)
             /\ ~DidNext(w, "variant_lookup") /\ ~DidNext(w, "variant_area")
             /\ ~DidNext(w, "item_area") /\ ~DidNext(w, "area_check")
             /\ AnsweredNext(w, 400, EmptyOrderError)
                <=> Eligible(req'[w].user, req'[w].patient)
             /\ AnsweredNext(w, 400, EmptyOrderError)
                => /\ DidNext(w, "wound_area")
                   /\ req'[w].calc.wound_area = WoundArea(req'[w].patient)
                   /\ req'[w].calc.max_allowed_area = AreaCap(req'[w].patient)]_vars

\* an empty-order rejection, made after the wound area was computed
C6_Witness ==
    \E w \in Workers :
        /\ Answered(w, 400, EmptyOrderError)
        /\ req[w].items = <<>>
        /\ Did(w, "wound_area")

(***************************************************************************)
(* C7 as claimed: every order attempt for a patient without a recorded     *)
(* wound length or width is answered with the wound-size-missing error.    *)
(***************************************************************************)
C7_NoWoundAlwaysWoundError ==
    \A w \in Workers :
        (/\ req[w].pc # "idle"
         /\ Owns(req[w].user, req[w].patient)
         /\ ~WoundRecorded(req[w].patient))
        => /\ Answered(w, 400, "Cannot place order")
           /\ req[w].resp.detail = WoundDetail

(***************************************************************************)
(* C7 amended: an order attempt for a patient of the requester without a   *)
(* recorded wound length or width is rejected and writes nothing: with the *)
(* IVR error when the patient has no approved IVR form, with the           *)
(* wound-size-missing error otherwise.  The checks of every request run in *)
(* the order patient id, patient lookup, IVR, wound size, then items and   *)
(* areas, so the wound-size rejection comes after the IVR check passed and *)
(* before any item or area check.                                          *)
(***************************************************************************)
GateOrder ==
    <<"patient_id", "patient_lookup", "ivr_check", "wound_check", "wound_area",
      "items_check">>
MinOf(a, b) == IF a <= b THEN a ELSE b
\* the steps begin with a prefix of GateOrder and no gate step comes later
InGateOrder(steps) ==
    /\ \A i \in 1..MinOf(Len(steps), Len(GateOrder)) : steps[i] = GateOrder[i]
    /\ \A i \in 1..Len(steps) :
          i > Len(GateOrder) => \A g \in 1..Len(GateOrder) : steps[i] # GateOrder[g]

C7_WoundCheckAfterIvr ==
    [][\A w \in Workers :
          Arrives(w)
          => /\ InGateOrder(req'[w].steps)
             /\ (Owns(req'[w].user, req'[w].patient) /\ ~WoundRecorded(req'[w].patient))
                => /\ AnsweredNext(w, 400, "Cannot place order")
                   /\ WroteNothingNext(w)
                   /\ IF SomeApprovedForm(req'[w].patient)
                      THEN /\ req'[w].resp.detail = WoundDetail
                           /\ req'[w].steps = SubSeq(GateOrder, 1, 4)
                      ELSE /\ req'[w].resp.detail = IvrDetail
                           /\ req'[w].steps = SubSeq(GateOrder, 1, 3)]_vars

\* a wound-size rejection of a request with items, after the IVR check
C7_Witness ==
    \E w \in Workers :
        /\ Answered(w, 400, "Cannot place order")
        /\ req[w].resp.detail = WoundDetail
        /\ Did(w, "ivr_check")
        /\ req[w].items # <<>>

(***************************************************************************)
(* C8 as claimed: every request with a line item whose variant id does not *)
(* exist is answered 404 naming that variant id.                           *)
(***************************************************************************)
\* index of the first line whose variant is none of vs, 0 when there is none
FirstMissing(items, vs) ==
    IF \E i \in 1..Len(items) : items[i].variant \notin vs
    THEN CHOOSE i \in 1..Len(items) :
            /\ items[i].variant \notin vs
            /\ \A j \in 1..(i - 1) : items[j].variant \in vs
    ELSE 0

C8_MissingVariantAlways404 ==
    \A w \in Workers :
        (req[w].pc # "idle" /\ FirstMissing(req[w].items, 1..Len(InitVariants)) # 0)
        => /\ Answered(w, 404, "Product variant not found")
           /\ req[w].resp.variant
                = req[w].items[FirstMissing(req[w].items, 1..Len(InitVariants))].variant

(***************************************************************************)
(* C8 amended: a request with a line item whose variant id does not exist  *)
(* is never accepted and writes nothing.  When its patient passes the      *)
(* patient, IVR and wound size checks, it is answered 404 naming the first *)
(* such variant id, whatever the other lines are, unless a line before it  *)
(* has a variant with an area and a quantity that is no number: then the   *)
(* request fails with an unhandled error (500).  The line is never         *)
(* skipped.                                                                *)
(***************************************************************************)
\* a line before line j makes Decimal(str(quantity)) raise
RaisesBefore(items, j) ==
    \E i \in 1..(j - 1) :
        CatalogArea(items[i].variant).n > 0 /\ ~items[i].quantity.isnum

C8_MissingVariantRejected ==
    [][\A w \in Workers :
          (Arrives(w) /\ FirstMissing(req'[w].items, DOMAIN variants) # 0)
          => /\ req'[w].pc = "done"
             /\ req'[w].resp.status \in {400, 404, 500}
             /\ WroteNothingNext(w)
             /\ Eligible(req'[w].user, req'[w].patient)
                => IF RaisesBefore(req'[w].items,
                                   FirstMissing(req'[w].items, DOMAIN variants))
                   THEN AnsweredNext(w, 500, "Server Error")
                   ELSE /\ AnsweredNext(w, 404, "Product variant not found")
                        /\ req'[w].resp.variant
                             = req'[w].items[FirstMissing(req'[w].items,
                                                          DOMAIN variants)].variant]_vars

\* a 404 for the second line, after a first line with a positive area
C8_Witness ==
    \E w \in Workers :
        /\ Answered(w, 404, "Product variant not found")
        /\ Len(req[w].items) = 2
        /\ req[w].resp.variant = req[w].items[2].variant
        /\ CatalogArea(req[w].items[1].variant).n > 0
        /\ req[w].items[1].quantity.isnum /\ req[w].items[1].quantity.v > 0

(***************************************************************************)
(* C9: a request without a patient id is answered 400; a request whose     *)
(* patient id does not exist or belongs to another provider is answered    *)
(* 404 'Patient not found' and writes nothing; so every order of this view *)
(* is for a patient of the provider who placed it.                         *)
(***************************************************************************)
C9_PatientOfRequester ==
    /\ \A w \in Workers :
          req[w].pc # "idle"
          => /\ req[w].patient = 0 => Answered(w, 400, "Patient ID is required")
             /\ (req[w].patient # 0 /\ ~Owns(req[w].user, req[w].patient))
                => Answered(w, 404, "Patient not found") /\ WroteNothing(w)
    /\ \A o \in 1..Len(orders) :
          orders[o].kind = "items" => Owns(orders[o].provider, orders[o].patient)

\* 'Patient not found' for a patient who exists and belongs to another provider
C9_Witness ==
    \E w \in Workers :
        /\ Answered(w, 404, "Patient not found")
        /\ req[w].patient \in 1..Len(patients)
        /\ patients[req[w].patient].provider # req[w].user
        /\ req[w].items # <<>>

(***************************************************************************)
(* C10: once OrderSerializer.create has returned or failed, the order it   *)
(* wrote has one OrderItem row per submitted line, with the submitted      *)
(* quantity and variant (or no variant, after the variant's deletion); an  *)
(* order with only part of its lines does not exist.                       *)
(***************************************************************************)
\* the item rows of order o, in order of insertion
RowsOf(o) == SelectSeq(order_items, LAMBDA row : row.order = o)
Complete(o) ==
    /\ Len(RowsOf(o)) = Len(orders[o].submitted)
    /\ \A i \in 1..Len(RowsOf(o)) :
          /\ RowsOf(o)[i].quantity = orders[o].submitted[i].quantity
          /\ RowsOf(o)[i].variant \in {orders[o].submitted[i].variant, 0}

C10_AllOrNothing ==
    \A o \in 1..Len(orders) :
        (/\ orders[o].kind = "items"
         /\ ~\E w \in Workers : req[w].order = o /\ req[w].pc = "items")
        => Complete(o)

(***************************************************************************)
(* C11: a step that ends a CreateOrderView.create request with one of its  *)
(* rejections (missing patient id, patient not found, IVR not approved,    *)
(* wound size missing, empty order, variant not found, area exceeded,      *)
(* serializer validation error) leaves the Order and OrderItem rows as     *)
(* they were, and the request has written no row before it.                *)
(***************************************************************************)
RejectionErrors ==
    {"Patient ID is required", "Patient not found", "Cannot place order",
     EmptyOrderError, "Product variant not found",
     "Order exceeds maximum allowed area", "validation error"}

C11_RejectionsWriteNothing ==
    [][\A w \in Workers :
          (/\ req'[w] # req[w]
           /\ req'[w].pc = "done"
           /\ req'[w].resp.error \in RejectionErrors)
          => /\ req'[w].resp.status \in {400, 404}
             /\ orders' = orders /\ order_items' = order_items
             /\ req[w].order = 0 /\ req'[w].order = 0
             /\ ~DidNext(w, "order_insert") /\ ~DidNext(w, "item_insert")]_vars

\* a request that passed the area check and was rejected by the serializer
C11_Witness ==
    \E w \in Workers :
        /\ Answered(w, 400, "validation error")
        /\ Did(w, "area_check")
        /\ orders = <<>> /\ order_items = <<>>

(***************************************************************************)
(* C12: a request whose invoice upload or invoice e-mail failed after the  *)
(* order was persisted is answered 201 with the order's id, and the order  *)
(* and one OrderItem row per submitted line are in the tables, then and    *)
(* ever after.                                                             *)
(***************************************************************************)
C12_DownstreamFailureStill201 ==
    \A w \in Workers :
        Did(w, "invoice_failed")
        => /\ Answered(w, 201, "")
           /\ req[w].resp.order_id = req[w].order
           /\ req[w].order \in 1..Len(orders)
           /\ orders[req[w].order].provider = req[w].user
           /\ orders[req[w].order].patient = req[w].patient
           /\ Len(RowsOf(req[w].order)) = Len(req[w].items)

\* a two-line order whose invoice failed
C12_Witness ==
    \E w \in Workers :
        /\ Did(w, "invoice_failed")
        /\ Len(req[w].items) = 2
        /\ Len(RowsOf(req[w].order)) = 2

(***************************************************************************)
(* C13: the area check of a request looks at the request's own lines only, *)
(* whatever orders exist or are being written for the patient: a request   *)
(* of an eligible patient whose lines name existing variants and carry     *)
(* numbers passes it exactly when its own total is within the limit.  So   *)
(* two concurrent requests for one patient can both be persisted with a    *)
(* combined area above the limit.                                          *)
(***************************************************************************)
C13_CheckIgnoresOtherOrders ==
    [][\A w \in Workers :
          (/\ Arrives(w)
           /\ Eligible(req'[w].user, req'[w].patient)
           /\ req'[w].items # <<>>
           /\ FirstMissing(req'[w].items, DOMAIN variants) = 0
           /\ ~RaisesBefore(req'[w].items, Len(req'[w].items) + 1))
          => /\ DidNext(w, "area_check")
             /\ req'[w].pc = "serializer"
                <=> ~DecGT(SubmittedArea(req'[w].items, Len(req'[w].items)),
                           AreaCap(req'[w].patient))]_vars

\* both requests are in flight with all their rows written, each within the
\* limit of the patient and the two together above it
C13_Witness ==
    \E w \in Workers, v \in Workers :
        /\ w # v
        /\ req[w].pc = "invoice" /\ req[v].pc = "invoice"
        /\ req[w].patient = req[v].patient
        /\ Complete(req[w].order) /\ Complete(req[v].order)
        /\ ~DecGT(SubmittedArea(req[w].items, Len(req[w].items)),
                  AreaCap(req[w].patient))
        /\ ~DecGT(SubmittedArea(req[v].items, Len(req[v].items)),
                  AreaCap(req[v].patient))
        /\ DecGT(DecAdd(SubmittedArea(req[w].items, Len(req[w].items)),
                        SubmittedArea(req[v].items, Len(req[v].items))),
                 AreaCap(req[w].patient))

(***************************************************************************)
(* C14: every persisted Order has at least one OrderItem, and every        *)
(* OrderItem references a product variant and has a quantity of at least   *)
(* 1; stated here for the orders that CreateOrderView.create has reported  *)
(* as created (201).                                                       *)
(***************************************************************************)
C14_OrdersHavePositiveItems ==
    \A w \in Workers :
        Answered(w, 201, "")
        => /\ Len(RowsOf(req[w].order)) >= 1
           /\ \A i \in 1..Len(RowsOf(req[w].order)) :
                 /\ RowsOf(req[w].order)[i].variant # 0
                 /\ RowsOf(req[w].order)[i].quantity >= 1

(***************************************************************************)
(* C15: for all dimensions a and b, the parser gives the area a*b for      *)
(* "axb", "a x b", "axb cm" and "a x b cm", and for "(10a)x(10b)mm" and    *)
(* "(10a) x (10b) mm", whatever the case of the letters and with 'x' or    *)
(* '×' between the numbers.  The area is read off a request for one unit   *)
(* of the variant that has the size.                                       *)
(***************************************************************************)
\* worker w computed the area of one unit of variant 1
OneUnitOfVariant1(w) ==
    /\ Did(w, "variant_area")
    /\ Len(req[w].items) = 1
    /\ req[w].items[1] = [variant |-> 1, quantity |-> Qty(1)]

C15_EquivalentDescriptors ==
    \A w \in Workers :
        OneUnitOfVariant1(w)
        => \A a \in SizeDims, b \in SizeDims, sep \in Separators, gap \in Gaps :
              /\ \A unit \in CmUnits :
                    variants[1] = SizeText(a.text, b.text, sep, gap, unit)
                    => DecEq(req[w].calc.total_ordered_area, DecMul(a.val, b.val))
              /\ \A unit \in MmUnits :
                    variants[1] = SizeText(a.text10, b.text10, sep, gap, unit)
                    => DecEq(req[w].calc.total_ordered_area, DecMul(a.val, b.val))

\* "20 X 20 MM" parsed as 4 cm2
C15_Witness ==
    \E w \in Workers :
        /\ OneUnitOfVariant1(w)
        /\ variants[1] = <<"2", "0", " ", "X", " ", "2", "0", " ", "M", "M">>
        /\ DecEq(req[w].calc.total_ordered_area, Dec(4, 0))
        /\ Did(w, "item_area")

(***************************************************************************)
(* C16: a size whose unit is neither mm nor cm, such as "2 x 2 in", is     *)
(* unparseable: the parser returns area zero for it, so one unit of the    *)
(* variant adds nothing to the total ordered area.                         *)
(***************************************************************************)
C16_OtherUnitIsUnparseable ==
    \A w \in Workers :
        (OneUnitOfVariant1(w) /\ variants[1] \in OtherUnitSizes)
        => /\ req[w].calc.total_ordered_area = Dec(0, 0)
           /\ ~Did(w, "item_area")

(***************************************************************************)
(* C17: a variant whose size does not match the pattern (empty, "large",   *)
(* a dimension missing) adds area 0 and raises nothing: a request of an    *)
(* eligible patient whose lines all name such variants passes the area     *)
(* check with total 0, whatever the quantities are (numbers of any size    *)
(* or sign, or no numbers at all).                                         *)
(***************************************************************************)
C17_UnparseableSizesAlwaysPass ==
    [][\A w \in Workers :
          (/\ Arrives(w)
           /\ Eligible(req'[w].user, req'[w].patient)
           /\ req'[w].items # <<>>
           /\ \A i \in 1..Len(req'[w].items) :
                 /\ req'[w].items[i].variant \in DOMAIN variants
                 /\ variants[req'[w].items[i].variant] \in NoSizes)
          => /\ req'[w].pc = "serializer"
             /\ DidNext(w, "area_check")
             /\ ~DidNext(w, "item_area")
             /\ req'[w].calc.total_ordered_area = Dec(0, 0)]_vars

\* a line for the variant with the empty size and a quantity that is no
\* number went through the area check
C17_Witness ==
    \E w \in Workers :
        /\ variants[1] = <<>>
        /\ Len(req[w].items) = 1
        /\ req[w].items[1] = [variant |-> 1, quantity |-> BadQty]
        /\ Did(w, "area_check")

(***************************************************************************)
(* C18: for a patient whose recorded wound length L and width W are        *)
(* positive two-decimal values, the request computes wound_area = L x W    *)
(* with all four decimals and max_allowed_area = 1.2 x L x W with all      *)
(* five, and it is rejected for its area exactly when the total ordered    *)
(* area is above that unrounded limit.  In hundredths l and w of a cm,     *)
(* the area is l*w / 10^4 and the limit 12*l*w / 10^5.                     *)
(***************************************************************************)
C18_ExactWoundArithmetic ==
    \A w \in Workers :
        Did(w, "wound_area")
        => /\ patients[req[w].patient].wound_size_length.e = 2
           /\ patients[req[w].patient].wound_size_width.e = 2
           /\ req[w].calc.wound_area
                = [null |-> FALSE,
                   n |-> patients[req[w].patient].wound_size_length.n
                         * patients[req[w].patient].wound_size_width.n,
                   e |-> 4]
           /\ req[w].calc.max_allowed_area
                = [null |-> FALSE,
                   n |-> 12 * patients[req[w].patient].wound_size_length.n
                            * patients[req[w].patient].wound_size_width.n,
                   e |-> 5]
           /\ Did(w, "area_check")
              => /\ req[w].calc.total_ordered_area.e <= 5
                 /\ AreaRejected(w)
                    <=> req[w].calc.total_ordered_area.n
                          * Pow10(5 - req[w].calc.total_ordered_area.e)
                        > 12 * patients[req[w].patient].wound_size_length.n
                             * patients[req[w].patient].wound_size_width.n

\* a wound of 3.33 x 1.00 has the limit 3.996: one 2x2cm unit (4 cm2) is
\* rejected, which a limit rounded to 4.00 would allow
C18_Witness ==
    \E w \in Workers :
        /\ Did(w, "area_check")
        /\ patients[req[w].patient].wound_size_length = Dec(333, 2)
        /\ patients[req[w].patient].wound_size_width = Dec(100, 2)
        /\ req[w].calc.max_allowed_area = Dec(399600, 5)
        /\ req[w].calc.total_ordered_area = Dec(4, 0)
        /\ AreaRejected(w)

(***************************************************************************)
(* C19: a request for a patient of the requester passes the IVR gate       *)
(* exactly when some IVR form of the patient, at any place of the          *)
(* history, is approved; the form submitted last decides nothing but the   *)
(* status named in the rejection.                                          *)
(***************************************************************************)
\* f is the form the patient submitted last
LastFormOf(pid, f) ==
    /\ f \in 1..Len(ivr_forms) /\ ivr_forms[f].patient = pid
    /\ \A g \in 1..Len(ivr_forms) : ivr_forms[g].patient = pid => g <= f
\* the request of worker w was rejected at the IVR gate, in the next state
IvrRejectedNext(w) ==
    /\ AnsweredNext(w, 400, "Cannot place order")
    /\ req'[w].resp.detail = IvrDetail
    /\ ~DidNext(w, "wound_check")

C19_AnyApprovedFormPasses ==
    [][\A w \in Workers :
          (Arrives(w) /\ Owns(req'[w].user, req'[w].patient))
          => /\ DidNext(w, "wound_check") <=> SomeApprovedForm(req'[w].patient)
             /\ IvrRejectedNext(w) <=> ~SomeApprovedForm(req'[w].patient)
             /\ IvrRejectedNext(w)
                => \/ /\ \A f \in 1..Len(ivr_forms) :
                            ivr_forms[f].patient # req'[w].patient
                      /\ req'[w].resp.current_status = "No IVR Submitted"
                   \/ \E f \in 1..Len(ivr_forms) :
                         /\ LastFormOf(req'[w].patient, f)
                         /\ req'[w].resp.current_status
                              = StatusDisplay(ivr_forms[f].status)]_vars

\* a request passed the gate for patient 2, whose first form is approved and
\* whose last form is pending; no form was reviewed or withdrawn before
C19_Witness ==
    \E w \in Workers :
        /\ req[w].patient = 2
        /\ Did(w, "wound_check")
        /\ ivr_forms[2].status = "approved"
        /\ LastFormOf(2, 3)
        /\ ivr_forms[3].status = "pending"
        /\ admin_ops = 0
        /\ ivr_resp = NoIvrResp

(***************************************************************************)
(* C20: a withdrawal requested by the provider of a form succeeds (200)    *)
(* exactly when the form is pending, and then only its status changes, to  *)
(* withdrawn; for a form that is approved, denied, cancelled or withdrawn  *)
(* the answer is 400 'Only pending IVR forms can be withdrawn' and no      *)
(* field of any form changes.  No withdrawal touches another form.         *)
(***************************************************************************)
\* this step is a withdrawal request (the admin's update moves admin_ops)
WithdrawStep ==
    admin_ops' = admin_ops /\ (ivr_resp' # ivr_resp \/ ivr_forms' # ivr_forms)
\* the form named by the withdrawal request belongs to the requester
OwnFormWithdrawn ==
    /\ ivr_resp'.form \in 1..Len(ivr_forms)
    /\ ivr_forms[ivr_resp'.form].provider = ivr_resp'.user

C20_WithdrawOnlyPending ==
    [][(WithdrawStep /\ OwnFormWithdrawn)
       => /\ ivr_resp'.status = 200 <=> ivr_forms[ivr_resp'.form].status = "pending"
          /\ ivr_forms[ivr_resp'.form].status = "pending"
             => ivr_forms' = [ivr_forms EXCEPT ![ivr_resp'.form].status = "withdrawn"]
          /\ ivr_forms[ivr_resp'.form].status # "pending"
             => /\ ivr_resp'.status = 400
                /\ ivr_resp'.error = "Only pending IVR forms can be withdrawn"
                /\ ivr_forms' = ivr_forms]_vars

\* the provider's request to withdraw the approved form 1 was answered 400,
\* with every form as it was at the start
C20_Witness ==
    /\ ivr_resp = [status |-> 400, error |-> "Only pending IVR forms can be withdrawn",
                   form |-> 1, user |-> "p1"]
    /\ ivr_forms = InitIvrForms
    /\ admin_ops = 0

(***************************************************************************)
(* C21: an admin's status update that carries a value succeeds exactly     *)
(* when the value is pending, approved, denied or cancelled; any other     *)
(* value, 'withdrawn' included, is answered 400 and no form changes.  A    *)
(* successful update changes the named form only, and when the new status  *)
(* is approved or denied the form's reviewed_at is the time of the update  *)
(* and its reviewed_by the admin who made the request.                     *)
(***************************************************************************)
\* this step is a status update of an admin
AdminUpdateStep == admin_ops' = admin_ops + 1 /\ admin_resp'.form # 0
AdminTargets == {"pending", "approved", "denied", "cancelled"}

C21_AdminStatusUpdate ==
    [][(AdminUpdateStep /\ admin_resp'.value # NoStatus)
       => /\ admin_resp'.status = 200 <=> admin_resp'.value \in AdminTargets
          /\ admin_resp'.status # 200
             => admin_resp'.status = 400 /\ ivr_forms' = ivr_forms
          /\ admin_resp'.status = 200
             => /\ ivr_forms'[admin_resp'.form].status = admin_resp'.value
                /\ \A f \in 1..Len(ivr_forms) :
                      f # admin_resp'.form => ivr_forms'[f] = ivr_forms[f]
                /\ admin_resp'.value \in {"approved", "denied"}
                   => /\ ivr_forms'[admin_resp'.form].reviewed_at = admin_ops'
                      /\ ivr_forms'[admin_resp'.form].reviewed_at # 0
                      /\ ivr_forms'[admin_resp'.form].reviewed_by = admin_resp'.user]_vars

\* the second admin asked for 'withdrawn' on the pending form 3 and was
\* refused, and then the form is still as submitted
C21_Witness ==
    /\ admin_resp = [status |-> 400, error |-> "Invalid status", form |-> 3,
                     user |-> "admin2", value |-> "withdrawn"]
    /\ ivr_forms[3] = InitIvrForms[3]
    /\ form_ops = 0

(***************************************************************************)
(* C22: a form is created with status pending, and a form's status         *)
(* becomes approved only in a status update of an admin on that form: no   *)
(* request of a provider creates an approved form or turns a form into an  *)
(* approved one.                                                           *)
(***************************************************************************)
C22_ApprovedOnlyByAdmin ==
    [][\A f \in 1..Len(ivr_forms') :
          /\ f > Len(ivr_forms) => ivr_forms'[f].status = "pending"
          /\ (f <= Len(ivr_forms)
              /\ ivr_forms'[f].status = "approved"
              /\ ivr_forms[f].status # "approved")
             => AdminUpdateStep /\ admin_resp'.form = f]_vars

(***************************************************************************)
(* C23: every order's patient is a patient of the order's provider,        *)
(* whichever of the three operations created the order.                    *)
(***************************************************************************)
C23_OrderPatientOfProvider ==
    \A o \in 1..Len(orders) :
        /\ orders[o].patient \in 1..Len(patients)
        /\ patients[orders[o].patient].provider = orders[o].provider

(***************************************************************************)
(* C24: every IVR form's patient is a patient of the form's provider.      *)
(***************************************************************************)
C24_FormPatientOfProvider ==
    \A f \in 1..Len(ivr_forms) :
        /\ ivr_forms[f].patient \in 1..Len(patients)
        /\ patients[ivr_forms[f].patient].provider = ivr_forms[f].provider

(***************************************************************************)
(* C25: a verification request passes only when a Verification_Code row    *)
(* of the named session exists and, for a mailed code, the submitted code  *)
(* equals the row's; tokens of a verification are handed out only to such  *)
(* a request, and with them the row is gone.  A request that names a       *)
(* session already verified is answered 400 'Invalid or expired session',  *)
(* and a request with a wrong code 400 without any token.                  *)
(***************************************************************************)
\* a verification request arrives in this step (at the first free worker)
VerifyArrives ==
    /\ auth_served' = auth_served + 1
    /\ FirstFreeAuth \in Workers
    /\ auth_req'[FirstFreeAuth].op = "verify"
\* the session was verified before
Verified(session_id) ==
    \E t \in tokens : t.by = "verify" /\ t.session_id = session_id
AuthAnsweredNext(w, status, error) ==
    /\ auth_req'[w].pc = "done"
    /\ auth_req'[w].resp.status = status /\ auth_req'[w].resp.error = error
    /\ auth_req'[w].resp.access = "" /\ auth_req'[w].resp.refresh = ""

C26_ExpiredCodeRefused ==
    [][VerifyArrives
       => /\ (/\ auth_req'[FirstFreeAuth].code # NoCode
              /\ \E r \in codes :
                    /\ r.session_id = auth_req'[FirstFreeAuth].session_id
                    /\ clock - r.created_at > CodeLifetime)
             => /\ AuthAnsweredNext(FirstFreeAuth, 400,
                                    "Verification code has expired")
                /\ tokens' = tokens
                /\ \A r \in codes' :
                      r.session_id # auth_req'[FirstFreeAuth].session_id
          /\ (\E w \in Workers :
                 /\ auth_req[w].op = "verify"
                 /\ auth_req[w].session_id = auth_req'[FirstFreeAuth].session_id
                 /\ auth_req[w].resp.error = "Verification code has expired")
             => /\ auth_req'[FirstFreeAuth].pc = "done"
                /\ auth_req'[FirstFreeAuth].resp.status = 400
                /\ auth_req'[FirstFreeAuth].resp.access = ""
                /\ auth_req'[FirstFreeAuth].resp.refresh = ""
                /\ tokens' = tokens]_vars

\* the mailed code of a session was submitted too late and refused, and the
\* row of the session is gone
C26_Witness ==
    \E w \in Workers :
        /\ auth_req[w].op = "verify"
        /\ auth_req[w].pc = "done"
        /\ auth_req[w].resp.error = "Verification code has expired"
        /\ CodesOf(auth_req[w].session_id) = {}
        /\ ~Verified(auth_req[w].session_id)
        /\ clock > CodeLifetime
        /\ \E m \in mailed :
              m.session_id = auth_req[w].session_id /\ m.code = auth_req[w].code

(***************************************************************************)
(* C27: once every login and BAA signing has been answered, a user has at  *)
(* most one Verification_Code row, so that of the user's sessions only the *)
(* one issued last can be verified.                                        *)
(***************************************************************************)
C27_OneSessionPerUser ==
    (\A w \in Workers : auth_req[w].pc \in {"idle", "done"})
    => \A r, q \in codes : r.user = q.user => r = q

(***************************************************************************)
(* C28: an answer of the login flow carries an access or a refresh token   *)
(* only when it is the answer of a verification that passed; the answers   *)
(* of the password step, of the BAA-required step and of the BAA signing   *)
(* carry none.                                                             *)
(***************************************************************************)
C28_TokensOnlyAfterVerification ==
    \A w \in Workers :
        (auth_req[w].resp.access # "" \/ auth_req[w].resp.refresh # "")
        => /\ auth_req[w].op = "verify"
           /\ auth_req[w].resp.verified
           /\ Verified(auth_req[w].session_id)

====
